---- MODULE Spec2Model ----
(***************************************************************************)
(* cuesheet: cues (one-shot, repeating, terminated) and the cue sheet that  *)
(* fires their callbacks from a setTimeout-driven clock (src/src/index.ts). *)
(***************************************************************************)
EXTENDS Integers, Sequences, FiniteSets, TLC

\* ------------------------------------------------------------------ bounds
MaxStart == 2        \* cue start times are drawn from 0..MaxStart
MaxInterval == 2     \* repeat intervals are drawn from 1..MaxInterval
MaxCount == 2        \* times(n) is drawn from 1..MaxCount
MaxUntil == 3        \* until(cue(b)) boundaries are drawn from 0..MaxUntil
MaxNow == 3          \* the wall clock (Date.now()) runs from 0 to MaxNow
MaxSeek == 2         \* seek targets are drawn from 0..MaxSeek
MaxBack == 1         \* backward seeks in one run
MaxOnce == 1         \* once() wrappers created in one run
MaxDestroy == 1      \* destroy() calls in one run

\* The identities of the cue objects and callback functions the caller holds.
CueIds == {"A"}
CbIds == {"f", "g"}

\* Functions of the caller whose bodies do more than return: "thrower"
\* throws, "pauser" calls pause(), "canceller" calls every unsubscribe
\* handle the caller got from on(c, g).
ReentrantIds == {"thrower", "pauser", "canceller"}

\* A function of the caller that calls seek(0), as a timeline that loops
\* does at its end; only the callers that use it have it among their
\* functions.
RewinderId == "rewinder"

\* ------------------------------------------------------------ JS values
Undefined == -1      \* an absent optional field (undefined / null)
Null == -1           \* null
Infinity == 1000000  \* c.untilTime ?? Infinity

\* ------------------------------------------------------------- cue model
\* `stage` stands for the methods the returned object carries:
\*   "cue" (repeats builds a repeating cue), "repeating" (repeats throws,
\*   times and until exist), "terminated" (repeats throws, no times/until).
cue(startTimeMs) ==
    [startTime |-> startTimeMs, interval |-> Undefined, maxCount |-> Undefined,
     untilTime |-> Undefined, stage |-> "cue"]

repeatingCue(startTimeMs, intervalMs) ==
    [startTime |-> startTimeMs, interval |-> intervalMs, maxCount |-> Undefined,
     untilTime |-> Undefined, stage |-> "repeating"]

Throw(msg) == [error |-> msg]

\* A repeats() that builds a repeating cue from any cue.
repeatsAgain(c, intervalMs) == repeatingCue(c.startTime, intervalMs)

repeats(c, intervalMs) ==
    CASE c.stage = "cue" -> repeatingCue(c.startTime, intervalMs)
      [] c.stage = "repeating" -> Throw("Already repeating")
      [] c.stage = "terminated" -> Throw("Already terminated")

\* A times() that stores n as the boundary.
timesAsBoundary(c, n) ==
    [startTime |-> c.startTime, interval |-> c.interval, maxCount |-> Undefined,
     untilTime |-> n, stage |-> "terminated"]

times(c, n) ==
    [startTime |-> c.startTime, interval |-> c.interval, maxCount |-> n,
     untilTime |-> Undefined, stage |-> "terminated"]

until(c, boundary) ==
    [startTime |-> c.startTime, interval |-> c.interval, maxCount |-> Undefined,
     untilTime |-> boundary.startTime, stage |-> "terminated"]

\* the methods the object carries
methods(c) ==
    CASE c.stage = "cue" -> {"repeats"}
      [] c.stage = "repeating" -> {"repeats", "times", "until"}
      [] c.stage = "terminated" -> {"repeats"}

\* c[m](arg): calling a property the object does not have is a TypeError
call(c, m, arg) ==
    IF m \notin methods(c) THEN Throw("TypeError: not a function")
    ELSE CASE m = "repeats" -> repeats(c, arg)
           [] m = "times" -> times(c, arg)
           [] m = "until" -> until(c, arg)

\* The cues a caller can build within the bounds.
OneShotCues == {cue(t) : t \in 0..MaxStart}
RepeatingCues == {repeats(cue(s), i) : s \in 0..MaxStart, i \in 1..MaxInterval}
TimesCues == {times(r, n) : r \in RepeatingCues, n \in 1..MaxCount}
UntilCues == {until(r, cue(b)) : r \in RepeatingCues, b \in 0..MaxUntil}
AllCues == OneShotCues \cup RepeatingCues \cup TimesCues \cup UntilCues

\* ------------------------------------------------------------ sheet state
VARIABLES
    cues,           \* the cue objects the caller built, by identity
    time,           \* let time
    playing,        \* let playing
    timerId,        \* let timerId
    lastTickTime,   \* let lastTickTime
    listeners,      \* Map<Cue, Set<cb>>: entries [cue, cbs] in insertion order
    firedOneShots,  \* Set<Cue>
    repeatState,    \* Map<Cue, {lastFireTime, count}>
    now,            \* Date.now()
    timers,         \* pending setTimeout(tick) timers
    handles,        \* unsubscribe handles returned to the caller, each with
                    \* the observation whether the caller has called it (and,
                    \* where the caller tells two handles of one function
                    \* apart, which is the second)
    wrappers,       \* number of once() wrapper closures created so far
    calls,          \* observation: invocations of each registered function per cue
    fires,          \* observation: the invocations the last advance made, in order
    skip,           \* observation: the span (from, to] the last forward seek jumped
                    \* over, less what a later backward seek went back over
    nBack,          \* observation: backward seeks so far
    nDestroy,       \* observation: destroy() calls so far
    other           \* the state of a second sheet, made by another cuesheet();
                    \* Null while the caller has made one sheet only

vars == <<cues, time, playing, timerId, lastTickTime, listeners, firedOneShots,
          repeatState, now, timers, handles, wrappers, calls, fires, skip, nBack,
          nDestroy, other>>

\* A registered function: the caller's function fn itself (wrap = 0, from on)
\* or the wrap-th closure that once() built around fn. The functions that
\* call back into the sheet are registered with on() only.
Fns == [fn : CbIds, wrap : 0..MaxOnce] \cup [fn : ReentrantIds, wrap : {0}]

NoSkip == [from |-> 0, to |-> 0]

\* ------------------------------------------------------- Map / Set helpers
\* listeners.has(c)
has(ls, c) == \E k \in 1..Len(ls) : ls[k].cue = c

\* listeners.get(c): the Set of c, in insertion order (empty when absent)
get(ls, c) ==
    IF has(ls, c) THEN ls[CHOOSE k \in 1..Len(ls) : ls[k].cue = c].cbs ELSE <<>>

\* A Set that keeps an element as often as it is added.
addAlways(set, x) == Append(set, x)

\* A Set that puts a new element first.
addFirst(set, x) == IF \E k \in 1..Len(set) : set[k] = x THEN set ELSE <<x>> \o set

\* Set.add: appends unless present
add(set, x) == IF \E k \in 1..Len(set) : set[k] = x THEN set ELSE Append(set, x)

\* Set.delete
delete(set, x) == SelectSeq(set, LAMBDA y : y # x)

\* A handle that removes nothing.
unsubscribeNothing(ls, c, cb) == ls

\* A handle on a Map keyed by the cue's fields.
unsubscribeByFields(ls, c, cb) ==
    [k \in 1..Len(ls) |->
        IF cues[ls[k].cue] = cues[c] THEN [ls[k] EXCEPT !.cbs = delete(@, cb)]
        ELSE ls[k]]

\* listeners.get(c)?.delete(cb)
unsubscribe(ls, c, cb) ==
    [k \in 1..Len(ls) |->
        IF ls[k].cue = c THEN [ls[k] EXCEPT !.cbs = delete(@, cb)] ELSE ls[k]]

\* if (!listeners.has(c)) listeners.set(c, new Set()); listeners.get(c).add(cb)
subscribe(ls, c, cb) ==
    LET withKey == IF has(ls, c) THEN ls ELSE Append(ls, [cue |-> c, cbs |-> <<>>])
    IN  [k \in 1..Len(withKey) |->
            IF withKey[k].cue = c THEN [withKey[k] EXCEPT !.cbs = add(@, cb)]
            ELSE withKey[k]]

\* setTimeout: a timer id no pending timer carries
setTimeout(pending) == CHOOSE id \in 1..(Cardinality(pending) + 1) : id \notin pending

\* clearTimeout
clearTimeout(pending, id) == pending \ {id}

\* --------------------------------------------------------- cue resolution
\* The part of the sheet a running tick reads and writes, threaded through
\* the loops: [time, playing, timerId, lastTickTime, timers, listeners,
\* firedOneShots, repeatState, calls, fires, nBack, skip, thrown]. thrown is
\* set when a callback has thrown: the exception unwinds forEach, the loops
\* and tick.

\* pause() called while a tick is running
pauseOf(st) ==
    [st EXCEPT !.playing = FALSE,
               !.timers = IF st.timerId # Null THEN clearTimeout(@, st.timerId) ELSE @,
               !.timerId = Null,
               !.lastTickTime = Null]

\* A seek that never resets the firing state, and one that always does.
seekNeverResets(timeMs, prevTime) == FALSE

seekAlwaysResets(timeMs, prevTime) == TRUE

\* timeMs < prevTime
seekResets(timeMs, prevTime) == timeMs < prevTime

\* seek(0) called while a tick is running
rewindOf(st) ==
    [st EXCEPT !.time = 0,
               !.firedOneShots = IF seekResets(0, st.time) THEN {} ELSE @,
               !.repeatState = IF seekResets(0, st.time) THEN <<>> ELSE @,
               !.nBack = IF 0 < st.time THEN @ + 1 ELSE @,
               !.skip = NoSkip]

\* the handles of on(c, g) called one after the other
cancelOf(st) ==
    [st EXCEPT !.listeners =
        [k \in 1..Len(@) |->
            IF \E h \in handles : h.cue = @[k].cue /\ h.cb = [fn |-> "g", wrap |-> 0]
            THEN [@[k] EXCEPT !.cbs = delete(@, [fn |-> "g", wrap |-> 0])]
            ELSE @[k]]]

\* the body of the caller's function fn
run(st, fn) ==
    CASE fn = "thrower" -> [st EXCEPT !.thrown = TRUE]
      [] fn = "pauser" -> pauseOf(st)
      [] fn = "canceller" -> cancelOf(st)
      [] fn = "rewinder" -> rewindOf(st)
      [] OTHER -> st

\* A once() wrapper that forgets to unsubscribe itself.
invokeKeepsWrapper(st, c, cb, nominal) ==
    run([st EXCEPT !.calls[c][cb] = @ + 1,
                   !.fires = Append(@, [cue |-> c, cb |-> cb, at |-> nominal])],
        cb.fn)

\* cb(): a once() wrapper first runs unsub(), then the caller's function;
\* a function registered with on() is the caller's function itself.
\* The invocation is observed in calls and in the advance's fires.
invoke(st, c, cb, nominal) ==
    LET ls == IF cb.wrap # 0 THEN unsubscribe(st.listeners, c, cb) ELSE st.listeners
    IN  run([st EXCEPT !.listeners = ls,
                       !.calls[c][cb] = @ + 1,
                       !.fires = Append(@, [cue |-> c, cb |-> cb, at |-> nominal])],
            cb.fn)

\* A forEach over the Set as it was when the advance began.
RECURSIVE forEachSnapshot(_, _, _, _)
forEachSnapshot(st, c, nominal, visited) ==
    LET pending == SelectSeq(get(listeners, c), LAMBDA cb : cb \notin visited)
    IN  IF pending = <<>> \/ st.thrown THEN st
        ELSE forEachSnapshot(invoke(st, c, pending[1], nominal), c, nominal,
                             visited \cup {pending[1]})

\* cbs.forEach((cb) => cb()): walks the live Set in insertion order, past
\* the functions already visited, until one throws
RECURSIVE forEach(_, _, _, _)
forEach(st, c, nominal, visited) ==
    LET pending == SelectSeq(get(st.listeners, c), LAMBDA cb : cb \notin visited)
    IN  IF pending = <<>> \/ st.thrown THEN st
        ELSE forEach(invoke(st, c, pending[1], nominal), c, nominal,
                     visited \cup {pending[1]})

\* Variants of the one-shot condition with one check lost.
oneShotDueEarly(fired, c, prevTime, currentTime) ==
    /\ c \notin fired
    /\ prevTime < cues[c].startTime

oneShotDueAlways(fired, c, prevTime, currentTime) ==
    currentTime >= cues[c].startTime

oneShotDueNoPrev(fired, c, prevTime, currentTime) ==
    /\ c \notin fired
    /\ currentTime >= cues[c].startTime

\* A window closed at prevTime.
oneShotDueInclusive(fired, c, prevTime, currentTime) ==
    /\ c \notin fired
    /\ prevTime <= cues[c].startTime
    /\ currentTime >= cues[c].startTime

\* !firedOneShots.has(c) && prevTime < c.startTime && currentTime >= c.startTime
oneShotDue(fired, c, prevTime, currentTime) ==
    /\ c \notin fired
    /\ prevTime < cues[c].startTime
    /\ currentTime >= cues[c].startTime

\* c.untilTime ?? Infinity
endTimeOf(c) == IF cues[c].untilTime # Undefined THEN cues[c].untilTime ELSE Infinity

\* Variants of the loop condition with one cap lost.
keepFiringUncapped(c, count, nextFire, currentTime, endTime) ==
    /\ nextFire <= currentTime
    /\ nextFire <= endTime

keepFiringPastEnd(c, count, nextFire, currentTime, endTime) ==
    /\ nextFire <= currentTime
    /\ ~(cues[c].maxCount # Undefined /\ count >= cues[c].maxCount)

\* the while condition and the maxCount break of processRepeatingCue
keepFiring(c, count, nextFire, currentTime, endTime) ==
    /\ nextFire <= currentTime
    /\ nextFire <= endTime
    /\ ~(cues[c].maxCount # Undefined /\ count >= cues[c].maxCount)

\* A seed that puts the first fire one interval after startTime.
seedStateLate(c) == [lastFireTime |-> cues[c].startTime, count |-> 0]

\* { lastFireTime: c.startTime - c.interval, count: 0 }
seedState(c) == [lastFireTime |-> cues[c].startTime - cues[c].interval, count |-> 0]

\* A loop that records the time of the advance as the last fire time.
RECURSIVE fireLoopDrifts(_, _, _, _, _, _)
fireLoopDrifts(st, c, state, nextFire, currentTime, endTime) ==
    IF ~st.thrown /\ keepFiring(c, state.count, nextFire, currentTime, endTime)
    THEN LET state1 == [lastFireTime |-> currentTime, count |-> state.count + 1]
             st1 == IF c \in DOMAIN st.repeatState
                    THEN [st EXCEPT !.repeatState[c] = state1] ELSE st
         IN  fireLoopDrifts(forEach(st1, c, nextFire, {}), c, state1,
                            nextFire + cues[c].interval, currentTime, endTime)
    ELSE st

\* A loop that moves nextFire on by one millisecond, not by the interval.
RECURSIVE fireLoopEveryMs(_, _, _, _, _, _)
fireLoopEveryMs(st, c, state, nextFire, currentTime, endTime) ==
    IF ~st.thrown /\ keepFiring(c, state.count, nextFire, currentTime, endTime)
    THEN LET state1 == [lastFireTime |-> nextFire, count |-> state.count + 1]
             st1 == IF c \in DOMAIN st.repeatState
                    THEN [st EXCEPT !.repeatState[c] = state1] ELSE st
         IN  fireLoopEveryMs(forEach(st1, c, nextFire, {}), c, state1,
                             nextFire + 1, currentTime, endTime)
    ELSE st

\* the while loop of processRepeatingCue. state is the object the loop got
\* from repeatState.get(c): it writes to that object, which is the Map's
\* entry for c unless a callback has cleared the Map meanwhile
RECURSIVE fireLoop(_, _, _, _, _, _)
fireLoop(st, c, state, nextFire, currentTime, endTime) ==
    IF ~st.thrown /\ keepFiring(c, state.count, nextFire, currentTime, endTime)
    THEN LET state1 == [lastFireTime |-> nextFire, count |-> state.count + 1]
             st1 == IF c \in DOMAIN st.repeatState
                    THEN [st EXCEPT !.repeatState[c] = state1] ELSE st
         IN  fireLoop(forEach(st1, c, nextFire, {}), c, state1,
                      nextFire + cues[c].interval, currentTime, endTime)
    ELSE st

\* A processRepeatingCue that seeds a new entry at the last nominal tick up
\* to prevTime, so that it fires the ticks in (prevTime, currentTime] only.
processRepeatingCueInWindow(st, c, prevTime, currentTime) ==
    IF currentTime < cues[c].startTime THEN st
    ELSE LET endTime == endTimeOf(c) IN
         IF prevTime >= endTime THEN st
         ELSE LET seed == IF prevTime < cues[c].startTime THEN seedState(c)
                          ELSE [lastFireTime |-> prevTime -
                                    ((prevTime - cues[c].startTime) % cues[c].interval),
                                count |-> 0]
                  st1 == IF c \in DOMAIN st.repeatState THEN st
                         ELSE [st EXCEPT !.repeatState = @ @@ (c :> seed)]
                  state == st1.repeatState[c]
              IN  fireLoop(st1, c, state, state.lastFireTime + cues[c].interval,
                           currentTime, endTime)

processRepeatingCue(st, c, prevTime, currentTime) ==
    IF currentTime < cues[c].startTime THEN st
    ELSE LET endTime == endTimeOf(c) IN
         IF prevTime >= endTime THEN st
         ELSE LET st1 == IF c \in DOMAIN st.repeatState THEN st
                         ELSE [st EXCEPT !.repeatState = @ @@ (c :> seedState(c))]
                  state == st1.repeatState[c]
              IN  fireLoop(st1, c, state, state.lastFireTime + cues[c].interval,
                           currentTime, endTime)

\* A loop over the Map from its last entry to its first.
RECURSIVE processCuesBackward(_, _, _, _)
processCuesBackward(st, k, prevTime, currentTime) ==
    IF k > Len(st.listeners) \/ st.thrown THEN st
    ELSE LET c == st.listeners[Len(st.listeners) + 1 - k].cue
             st1 == IF cues[c].interval # Undefined
                    THEN processRepeatingCue(st, c, prevTime, currentTime)
                    ELSE IF oneShotDue(st.firedOneShots, c, prevTime, currentTime)
                         THEN forEach([st EXCEPT !.firedOneShots = @ \cup {c}],
                                      c, cues[c].startTime, {})
                         ELSE st
         IN  processCuesBackward(st1, k + 1, prevTime, currentTime)

\* A loop over the Map that passes over the cues whose Set is empty.
RECURSIVE processCuesSkipsEmpty(_, _, _, _)
processCuesSkipsEmpty(st, k, prevTime, currentTime) ==
    IF k > Len(st.listeners) \/ st.thrown THEN st
    ELSE LET c == st.listeners[k].cue
             st1 == IF st.listeners[k].cbs = <<>> THEN st
                    ELSE IF cues[c].interval # Undefined
                    THEN processRepeatingCue(st, c, prevTime, currentTime)
                    ELSE IF oneShotDue(st.firedOneShots, c, prevTime, currentTime)
                         THEN forEach([st EXCEPT !.firedOneShots = @ \cup {c}],
                                      c, cues[c].startTime, {})
                         ELSE st
         IN  processCuesSkipsEmpty(st1, k + 1, prevTime, currentTime)

\* for (const [c, cbs] of listeners): k is the position in the live Map
RECURSIVE processCues(_, _, _, _)
processCues(st, k, prevTime, currentTime) ==
    IF k > Len(st.listeners) \/ st.thrown THEN st
    ELSE LET c == st.listeners[k].cue
             st1 == IF cues[c].interval # Undefined
                    THEN processRepeatingCue(st, c, prevTime, currentTime)
                    ELSE IF oneShotDue(st.firedOneShots, c, prevTime, currentTime)
                         THEN forEach([st EXCEPT !.firedOneShots = @ \cup {c}],
                                      c, cues[c].startTime, {})
                         ELSE st
         IN  processCues(st1, k + 1, prevTime, currentTime)

\* ------------------------------------------------------------- operations
\* the state a cuesheet() call creates, with the observations of the sheet
NewSheet ==
    [time |-> 0, playing |-> FALSE, timerId |-> Null, lastTickTime |-> Null,
     timers |-> {}, listeners |-> <<>>, firedOneShots |-> {}, repeatState |-> <<>>,
     calls |-> [c \in DOMAIN cues |-> [f \in Fns |-> 0]], fires |-> <<>>,
     thrown |-> FALSE]

Init ==
    /\ cues \in [CueIds -> AllCues]
    /\ time = 0
    /\ playing = FALSE
    /\ timerId = Null
    /\ lastTickTime = Null
    /\ listeners = <<>>
    /\ firedOneShots = {}
    /\ repeatState = <<>>
    /\ now = 0
    /\ timers = {}
    /\ handles = {}
    /\ wrappers = 0
    /\ calls = [c \in DOMAIN cues |-> [f \in Fns |-> 0]]
    /\ fires = <<>>
    /\ skip = NoSkip
    /\ nBack = 0
    /\ nDestroy = 0
    /\ other = Null

\* the wall clock moves on
clock ==
    /\ now < MaxNow
    /\ now' = now + 1
    /\ UNCHANGED <<cues, time, playing, timerId, lastTickTime, listeners,
                   firedOneShots, repeatState, timers, handles, wrappers, calls,
                   fires, skip, nBack, nDestroy, other>>

\* the system clock is set back (by the user, or by a time service that
\* corrects it): Date.now() returns a smaller value than before
clockBack ==
    /\ now > 0
    /\ now' = now - 1
    /\ UNCHANGED <<cues, time, playing, timerId, lastTickTime, listeners,
                   firedOneShots, repeatState, timers, handles, wrappers, calls,
                   fires, skip, nBack, nDestroy, other>>

\* A tick that runs whether or not the sheet is playing.
tickNeverReturns(isPlaying) == FALSE

\* if (!playing) return
tickReturns(isPlaying) == ~isPlaying

\* A tick that measures its first delta from the wall clock's origin.
tickBaseStale(last, nowMs) == IF last = Null THEN 0 ELSE last

\* if (lastTickTime === null) lastTickTime = now
tickBase(last, nowMs) == IF last = Null THEN nowMs ELSE last

\* a pending timer runs tick(). The delay TICK_MS of setTimeout is not
\* modelled: a pending timer may run at any wall-clock time, so the deltas
\* of the source are among the deltas of the model. A callback that throws
\* ends tick before it schedules the next timer.
tick ==
    \E id \in timers :
        LET pending == timers \ {id} IN
        IF tickReturns(playing)
        THEN /\ timers' = pending
             /\ UNCHANGED <<cues, time, playing, timerId, lastTickTime, listeners,
                            firedOneShots, repeatState, now, handles, wrappers,
                            calls, fires, skip, nBack, nDestroy, other>>
        ELSE LET last == tickBase(lastTickTime, now)
                 delta == now - last
                 prevTime == time
                 currentTime == time + delta
             IN  \E st \in {processCues([time |-> currentTime,
                                          nBack |-> nBack, skip |-> skip,
                                          playing |-> playing, timerId |-> timerId,
                                          lastTickTime |-> now, timers |-> pending,
                                          listeners |-> listeners,
                                          firedOneShots |-> firedOneShots,
                                          repeatState |-> repeatState,
                                          calls |-> calls, fires |-> <<>>,
                                          thrown |-> FALSE],
                                         1, prevTime, currentTime)} :
                 \E id1 \in {setTimeout(st.timers)} :
                 /\ time' = st.time
                 /\ nBack' = st.nBack
                 /\ skip' = st.skip
                 /\ playing' = st.playing
                 /\ lastTickTime' = st.lastTickTime
                 /\ listeners' = st.listeners
                 /\ firedOneShots' = st.firedOneShots
                 /\ repeatState' = st.repeatState
                 /\ calls' = st.calls
                 /\ fires' = st.fires
                 /\ timerId' = IF st.thrown THEN st.timerId ELSE id1
                 /\ timers' = IF st.thrown THEN st.timers ELSE st.timers \cup {id1}
                 /\ UNCHANGED <<cues, now, handles, wrappers, nDestroy, other>>

\* An on() that also starts the clock.
onStartsClock(c, f) ==
        LET cb == [fn |-> f, wrap |-> 0]
            id == setTimeout(timers) IN
        /\ listeners' = subscribe(listeners, c, cb)
        /\ handles' = handles \cup {[cue |-> c, cb |-> cb, called |-> FALSE]}
        /\ playing' = TRUE
        /\ timerId' = id
        /\ timers' = timers \cup {id}
        /\ UNCHANGED <<cues, time, lastTickTime, firedOneShots, repeatState, now,
                       wrappers, calls, fires, skip, nBack, nDestroy, other>>

on(c, f) ==
        LET cb == [fn |-> f, wrap |-> 0] IN
        /\ listeners' = subscribe(listeners, c, cb)
        /\ handles' = handles \cup {[cue |-> c, cb |-> cb, called |-> FALSE]}
        /\ UNCHANGED <<cues, time, playing, timerId, lastTickTime, firedOneShots,
                       repeatState, now, timers, wrappers, calls, fires, skip, nBack, nDestroy, other>>

\* on(c, f) called again while f is subscribed to c. on() returns a new
\* closure at every call; the caller keeps this one apart from the first,
\* and the handle is marked as the second.
onAgain(c, f) ==
        LET cb == [fn |-> f, wrap |-> 0] IN
        /\ \E k \in 1..Len(get(listeners, c)) : get(listeners, c)[k] = cb
        /\ listeners' = subscribe(listeners, c, cb)
        /\ handles' = handles \cup {[cue |-> c, cb |-> cb, called |-> FALSE,
                                      second |-> TRUE]}
        /\ UNCHANGED <<cues, time, playing, timerId, lastTickTime, firedOneShots,
                       repeatState, now, timers, wrappers, calls, fires, skip, nBack, nDestroy, other>>

once(c, f) ==
        LET cb == [fn |-> f, wrap |-> wrappers + 1] IN
        /\ wrappers < MaxOnce
        /\ wrappers' = wrappers + 1
        /\ listeners' = subscribe(listeners, c, cb)
        /\ handles' = handles \cup {[cue |-> c, cb |-> cb, called |-> FALSE]}
        /\ UNCHANGED <<cues, time, playing, timerId, lastTickTime, firedOneShots,
                       repeatState, now, timers, calls, fires, skip, nBack, nDestroy, other>>

\* the caller invokes a handle that on() or once() returned
unsub(h) ==
        /\ listeners' = unsubscribe(listeners, h.cue, h.cb)
        /\ handles' = (handles \ {h}) \cup {[h EXCEPT !.called = TRUE]}
        /\ UNCHANGED <<cues, time, playing, timerId, lastTickTime, firedOneShots,
                       repeatState, now, timers, wrappers, calls, fires, skip,
                       nBack, nDestroy, other>>

\* A play() that starts over on a sheet that is already playing.
playNeverReturns(isPlaying) == FALSE

\* if (playing) return
playReturns(isPlaying) == isPlaying

play ==
    /\ IF playReturns(playing)
       THEN UNCHANGED <<playing, lastTickTime, timerId, timers>>
       ELSE LET id == setTimeout(timers) IN
            /\ playing' = TRUE
            /\ lastTickTime' = Null
            /\ timerId' = id
            /\ timers' = timers \cup {id}
    /\ UNCHANGED <<cues, time, listeners, firedOneShots, repeatState, now, handles,
                   wrappers, calls, fires, skip, nBack, nDestroy, other>>

pause ==
    /\ playing' = FALSE
    /\ timers' = IF timerId # Null THEN clearTimeout(timers, timerId) ELSE timers
    /\ timerId' = Null
    /\ lastTickTime' = Null
    /\ UNCHANGED <<cues, time, listeners, firedOneShots, repeatState, now, handles,
                   wrappers, calls, fires, skip, nBack, nDestroy, other>>

\* A backward seek that clears firedOneShots and keeps repeatState.
seekKeepsCounts(timeMs) ==
        LET prevTime == time IN
        /\ timeMs < time => nBack < MaxBack
        /\ time' = timeMs
        /\ firedOneShots' = IF seekResets(timeMs, prevTime) THEN {} ELSE firedOneShots
        /\ nBack' = IF timeMs < time THEN nBack + 1 ELSE nBack
        /\ skip' = IF timeMs > time THEN [from |-> time, to |-> timeMs]
                   ELSE IF timeMs > skip.from /\ skip.to > skip.from
                        THEN [skip EXCEPT !.to = IF timeMs < @ THEN timeMs ELSE @]
                        ELSE NoSkip
        /\ UNCHANGED <<cues, playing, timerId, lastTickTime, listeners, repeatState,
                       now, timers, handles, wrappers, calls, fires, nDestroy, other>>

seek(timeMs) ==
        LET prevTime == time IN
        /\ timeMs < time => nBack < MaxBack
        /\ time' = timeMs
        /\ IF seekResets(timeMs, prevTime)
           THEN /\ firedOneShots' = {}
                /\ repeatState' = <<>>
           ELSE UNCHANGED <<firedOneShots, repeatState>>
        /\ nBack' = IF timeMs < time THEN nBack + 1 ELSE nBack
        /\ skip' = IF timeMs > time THEN [from |-> time, to |-> timeMs]
                   ELSE IF timeMs > skip.from /\ skip.to > skip.from
                        THEN [skip EXCEPT !.to = IF timeMs < @ THEN timeMs ELSE @]
                        ELSE NoSkip
        /\ UNCHANGED <<cues, playing, timerId, lastTickTime, listeners, now, timers,
                       handles, wrappers, calls, fires, nDestroy, other>>

\* A destroy() that stops the sheet and keeps its collections.
destroyKeepsCollections ==
    /\ nDestroy < MaxDestroy
    /\ nDestroy' = nDestroy + 1
    /\ playing' = FALSE
    /\ timers' = IF timerId # Null THEN clearTimeout(timers, timerId) ELSE timers
    /\ timerId' = Null
    /\ UNCHANGED <<cues, time, lastTickTime, listeners, firedOneShots, repeatState,
                   now, handles, wrappers, calls, fires, nBack, other>>
    /\ skip' = NoSkip

destroy ==
    /\ nDestroy < MaxDestroy
    /\ nDestroy' = nDestroy + 1
    /\ playing' = FALSE
    /\ timers' = IF timerId # Null THEN clearTimeout(timers, timerId) ELSE timers
    /\ timerId' = Null
    /\ listeners' = <<>>
    /\ firedOneShots' = {}
    /\ repeatState' = <<>>
    /\ UNCHANGED <<cues, time, lastTickTime, now, handles, wrappers, calls, fires,
                   nBack, other>>
    /\ skip' = NoSkip

\* ------------------------------------------------------------ cue chain
\* The caller goes on with a chain: the variable c takes the value of
\* c.repeats(i), c.times(n) or c.until(b), or the error the call threw;
\* after an error the chain is over.
IsCue(v) == "error" \notin DOMAIN v

callRepeats(c, intervalMs) ==
    /\ IsCue(cues[c])
    /\ cues' = [cues EXCEPT ![c] = call(cues[c], "repeats", intervalMs)]
    /\ UNCHANGED <<time, playing, timerId, lastTickTime, listeners, firedOneShots,
                   repeatState, now, timers, handles, wrappers, calls, fires, skip,
                   nBack, nDestroy, other>>

callTimes(c, n) ==
    /\ IsCue(cues[c])
    /\ cues' = [cues EXCEPT ![c] = call(cues[c], "times", n)]
    /\ UNCHANGED <<time, playing, timerId, lastTickTime, listeners, firedOneShots,
                   repeatState, now, timers, handles, wrappers, calls, fires, skip,
                   nBack, nDestroy, other>>

callUntil(c, b) ==
    /\ IsCue(cues[c]) /\ IsCue(cues[b])
    /\ cues' = [cues EXCEPT ![c] = call(cues[c], "until", cues[b])]
    /\ UNCHANGED <<time, playing, timerId, lastTickTime, listeners, firedOneShots,
                   repeatState, now, timers, handles, wrappers, calls, fires, skip,
                   nBack, nDestroy, other>>

\* ---------------------------------------------------------- a second sheet
\* The operations of a sheet on its state held in a record r, as NewSheet
\* makes it. Of the observations, r keeps calls; the fires of an advance are
\* not kept.
playOf(r) ==
    IF playReturns(r.playing) THEN r
    ELSE LET id == setTimeout(r.timers) IN
         [r EXCEPT !.playing = TRUE, !.lastTickTime = Null, !.timerId = id,
                   !.timers = @ \cup {id}]

seekOf(r, timeMs) ==
    LET prevTime == r.time IN
    [r EXCEPT !.time = timeMs,
              !.firedOneShots = IF seekResets(timeMs, prevTime) THEN {} ELSE @,
              !.repeatState = IF seekResets(timeMs, prevTime) THEN <<>> ELSE @]

destroyOf(r) ==
    [r EXCEPT !.playing = FALSE,
              !.timers = IF r.timerId # Null THEN clearTimeout(@, r.timerId) ELSE @,
              !.timerId = Null,
              !.listeners = <<>>,
              !.firedOneShots = {},
              !.repeatState = <<>>]

onOf(r, c, cb) == [r EXCEPT !.listeners = subscribe(@, c, cb)]

unsubOf(r, c, cb) == [r EXCEPT !.listeners = unsubscribe(@, c, cb)]

tickOf(r, id, nowMs) ==
    LET pending == r.timers \ {id} IN
    IF tickReturns(r.playing) THEN [r EXCEPT !.timers = pending]
    ELSE LET last == tickBase(r.lastTickTime, nowMs)
             delta == nowMs - last
             prevTime == r.time
             currentTime == r.time + delta
             st == processCues([r EXCEPT !.lastTickTime = nowMs, !.timers = pending,
                                         !.time = currentTime, !.fires = <<>>,
                                         !.thrown = FALSE],
                               1, prevTime, currentTime)
             id1 == setTimeout(st.timers)
         IN  IF st.thrown THEN [st EXCEPT !.fires = <<>>]
             ELSE [st EXCEPT !.timerId = id1, !.timers = @ \cup {id1},
                             !.fires = <<>>]

\* the state of the first sheet as such a record
ThisSheet ==
    [time |-> time, playing |-> playing, timerId |-> timerId,
     lastTickTime |-> lastTickTime, timers |-> timers, listeners |-> listeners,
     firedOneShots |-> firedOneShots, repeatState |-> repeatState,
     calls |-> calls, fires |-> fires, thrown |-> FALSE]

\* Sheets whose methods all work on the state of the first cuesheet() call.
closureShared(sheet) == 1

\* the state the methods of the sheet-th cuesheet() call close over: the
\* let and const bindings that this call created
closure(sheet) == sheet

\* the state the second sheet's methods read
OtherEnv == IF closure(2) = 2 THEN other ELSE ThisSheet

\* ... and the state they write
otherSet(r) ==
    IF closure(2) = 2
    THEN /\ other' = r
         /\ UNCHANGED <<cues, time, playing, timerId, lastTickTime, listeners,
                        firedOneShots, repeatState, now, timers, handles, wrappers,
                        calls, fires, skip, nBack, nDestroy>>
    ELSE /\ time' = r.time
         /\ playing' = r.playing
         /\ timerId' = r.timerId
         /\ lastTickTime' = r.lastTickTime
         /\ timers' = r.timers
         /\ listeners' = r.listeners
         /\ firedOneShots' = r.firedOneShots
         /\ repeatState' = r.repeatState
         /\ calls' = r.calls
         /\ fires' = r.fires
         /\ UNCHANGED <<cues, now, handles, wrappers, skip, nBack, nDestroy, other>>

otherTick == \E id \in OtherEnv.timers : otherSet(tickOf(OtherEnv, id, now))

otherOn(c, f) == otherSet(onOf(OtherEnv, c, [fn |-> f, wrap |-> 0]))

\* the caller invokes the handle that the second sheet's on(c, f) returned
otherUnsub(c, f) ==
    /\ has(OtherEnv.listeners, c)
    /\ otherSet(unsubOf(OtherEnv, c, [fn |-> f, wrap |-> 0]))

otherPlay == otherSet(playOf(OtherEnv))

otherPause == otherSet(pauseOf(OtherEnv))

otherSeek(timeMs) == otherSet(seekOf(OtherEnv, timeMs))

otherDestroy == otherSet(destroyOf(OtherEnv))

Next ==
    \/ clock
    \/ tick
    \/ \E c \in DOMAIN cues, f \in CbIds : on(c, f)
    \/ \E c \in DOMAIN cues, f \in CbIds : once(c, f)
    \/ \E h \in handles : unsub(h)
    \/ play
    \/ pause
    \/ \E timeMs \in 0..MaxSeek : seek(timeMs)
    \/ destroy

Spec == Init /\ [][Next]_vars

\* Callers that subscribe with on() on the fresh sheet, before play(), and
\* then only play, pause and let time pass.
Fresh == ~playing /\ time = 0 /\ firedOneShots = {} /\ repeatState = <<>>

NextPlayback ==
    \/ clock
    \/ tick
    \/ \E c \in DOMAIN cues, f \in CbIds : Fresh /\ on(c, f)
    \/ play
    \/ pause

SpecPlayback == Init /\ [][NextPlayback]_vars

\* Callers that subscribe with on() on the fresh sheet and seek forward only.
NextForward ==
    \/ clock
    \/ tick
    \/ \E c \in DOMAIN cues, f \in CbIds : Fresh /\ on(c, f)
    \/ play
    \/ pause
    \/ \E timeMs \in 0..MaxSeek : timeMs >= time /\ seek(timeMs)

SpecForward == Init /\ [][NextForward]_vars

\* Callers that subscribe one function at any moment and seek in both
\* directions.
NextSeek ==
    \/ clock
    \/ tick
    \/ \E c \in DOMAIN cues : on(c, "f")
    \/ play
    \/ pause
    \/ \E timeMs \in 0..MaxSeek : seek(timeMs)

SpecSeek == Init /\ [][NextSeek]_vars

\* Callers that subscribe one function on the fresh sheet, a plain one or
\* one that calls pause(), and then play, pause, let time pass and, while
\* the sheet is paused, seek forward.
NextPause ==
    \/ clock
    \/ tick
    \/ \E c \in DOMAIN cues : Fresh /\ listeners = <<>> /\ on(c, "f")
    \/ \E c \in DOMAIN cues : Fresh /\ listeners = <<>> /\ on(c, "pauser")
    \/ play
    \/ pause
    \/ \E timeMs \in 0..MaxSeek : ~playing /\ timeMs >= time /\ seek(timeMs)

SpecPause == Init /\ [][NextPause]_vars

\* Callers that subscribe one function with on() at any moment, again
\* after unsubscribing too, call the handles they got, play and rewind.
NextUnsub ==
    \/ clock
    \/ tick
    \/ \E c \in DOMAIN cues : on(c, "f")
    \/ \E h \in handles : unsub(h)
    \/ play
    \/ \E timeMs \in 0..MaxSeek : timeMs < time /\ seek(timeMs)

SpecUnsub == Init /\ [][NextUnsub]_vars

\* Callers that subscribe one function with once() at any moment, call the
\* handle they got, play and rewind.
NextOnce ==
    \/ clock
    \/ tick
    \/ \E c \in DOMAIN cues : once(c, "f")
    \/ \E h \in handles : unsub(h)
    \/ play
    \/ \E timeMs \in 0..MaxSeek : timeMs < time /\ seek(timeMs)

SpecOnce == Init /\ [][NextOnce]_vars

\* A caller that built two cue objects: A one-shot or repeating without a
\* cap, B one-shot.
TwoCueIds == {"A", "B"}

InitTwoCues ==
    /\ cues \in {q \in [TwoCueIds -> OneShotCues \cup RepeatingCues] :
                    q["B"] \in OneShotCues}
    /\ time = 0
    /\ playing = FALSE
    /\ timerId = Null
    /\ lastTickTime = Null
    /\ listeners = <<>>
    /\ firedOneShots = {}
    /\ repeatState = <<>>
    /\ now = 0
    /\ timers = {}
    /\ handles = {}
    /\ wrappers = 0
    /\ calls = [c \in DOMAIN cues |-> [f \in Fns |-> 0]]
    /\ fires = <<>>
    /\ skip = NoSkip
    /\ nBack = 0
    /\ nDestroy = 0
    /\ other = Null

\* Callers that subscribe, on the fresh sheet, a plain function and one that
\* throws to two cues, and then play and let time pass.
NextThrow ==
    \/ clock
    \/ tick
    \/ \E c \in DOMAIN cues : Fresh /\ on(c, "g")
    \/ \E c \in DOMAIN cues : Fresh /\ on(c, "thrower")
    \/ play

SpecThrow == InitTwoCues /\ [][NextThrow]_vars

\* Callers that subscribe, on the fresh sheet, a plain function g and one
\* that calls the handles of g to two cues, and then play and let time pass.
NextCancel ==
    \/ clock
    \/ tick
    \/ \E c \in DOMAIN cues : Fresh /\ on(c, "g")
    \/ \E c \in DOMAIN cues : Fresh /\ on(c, "canceller")
    \/ play

SpecCancel == InitTwoCues /\ [][NextCancel]_vars

\* Callers that subscribe, on the fresh sheet, one plain function to two
\* cues in any order, call the handles they got and subscribe again, and
\* then play and let time pass.
NextOrder ==
    \/ clock
    \/ tick
    \/ \E c \in DOMAIN cues : Fresh /\ on(c, "f")
    \/ \E h \in handles : Fresh /\ unsub(h)
    \/ play

SpecOrder == InitTwoCues /\ [][NextOrder]_vars

\* Callers that subscribe two plain functions to one cue at any moment, in
\* any order, call the handles they got before they play, and let time
\* pass.
NextSiblings ==
    \/ clock
    \/ tick
    \/ \E c \in DOMAIN cues, f \in CbIds : on(c, f)
    \/ \E h \in handles : ~playing /\ unsub(h)
    \/ play

SpecSiblings == Init /\ [][NextSiblings]_vars

\* Callers that subscribe one function at any moment, play, pause, let
\* time pass and destroy the sheet, and go on using it afterwards.
NextDestroy ==
    \/ clock
    \/ tick
    \/ \E c \in DOMAIN cues : on(c, "f")
    \/ play
    \/ pause
    \/ destroy

SpecDestroy == Init /\ [][NextDestroy]_vars

\* Callers that make two cues with cue(t) and chain repeats, times and
\* until on them in any order, each taking the other as a boundary.
InitChain ==
    /\ cues \in [TwoCueIds -> OneShotCues]
    /\ time = 0
    /\ playing = FALSE
    /\ timerId = Null
    /\ lastTickTime = Null
    /\ listeners = <<>>
    /\ firedOneShots = {}
    /\ repeatState = <<>>
    /\ now = 0
    /\ timers = {}
    /\ handles = {}
    /\ wrappers = 0
    /\ calls = [c \in DOMAIN cues |-> [f \in Fns |-> 0]]
    /\ fires = <<>>
    /\ skip = NoSkip
    /\ nBack = 0
    /\ nDestroy = 0
    /\ other = Null

NextChain ==
    \/ \E c \in DOMAIN cues, intervalMs \in 1..MaxInterval : callRepeats(c, intervalMs)
    \/ \E c \in DOMAIN cues, n \in 1..MaxCount : callTimes(c, n)
    \/ \E c, b \in DOMAIN cues : callUntil(c, b)

SpecChain == InitChain /\ [][NextChain]_vars

\* Callers that built two cue objects with identical fields, one-shot or
\* repeating without a cap, subscribe one function to each at any moment, call the handles they got, play and let
\* time pass.
InitTwins ==
    /\ cues \in {q \in [TwoCueIds -> OneShotCues \cup RepeatingCues] : q["A"] = q["B"]}
    /\ time = 0
    /\ playing = FALSE
    /\ timerId = Null
    /\ lastTickTime = Null
    /\ listeners = <<>>
    /\ firedOneShots = {}
    /\ repeatState = <<>>
    /\ now = 0
    /\ timers = {}
    /\ handles = {}
    /\ wrappers = 0
    /\ calls = [c \in DOMAIN cues |-> [f \in Fns |-> 0]]
    /\ fires = <<>>
    /\ skip = NoSkip
    /\ nBack = 0
    /\ nDestroy = 0
    /\ other = Null

NextTwins ==
    \/ clock
    \/ tick
    \/ \E c \in DOMAIN cues : on(c, "f")
    \/ \E h \in handles : unsub(h)
    \/ play

SpecTwins == InitTwins /\ [][NextTwins]_vars

\* Callers that hold a one-shot or an uncapped repeating cue and, while the
\* sheet is not playing, subscribe, call handles, seek, pause and destroy;
\* and that play and let time pass.
InitPlainCue ==
    /\ cues \in [CueIds -> OneShotCues \cup RepeatingCues]
    /\ time = 0
    /\ playing = FALSE
    /\ timerId = Null
    /\ lastTickTime = Null
    /\ listeners = <<>>
    /\ firedOneShots = {}
    /\ repeatState = <<>>
    /\ now = 0
    /\ timers = {}
    /\ handles = {}
    /\ wrappers = 0
    /\ calls = [c \in DOMAIN cues |-> [f \in Fns |-> 0]]
    /\ fires = <<>>
    /\ skip = NoSkip
    /\ nBack = 0
    /\ nDestroy = 0
    /\ other = Null

NextIdle ==
    \/ clock
    \/ tick
    \/ \E c \in DOMAIN cues : ~playing /\ timers = {} /\ on(c, "f")
    \/ \E h \in handles : ~playing /\ timers = {} /\ unsub(h)
    \/ play
    \/ ~playing /\ timers = {} /\ pause
    \/ \E timeMs \in 0..MaxSeek : ~playing /\ timers = {} /\ seek(timeMs)
    \/ ~playing /\ timers = {} /\ destroy

SpecIdle == InitPlainCue /\ [][NextIdle]_vars

\* Callers that hold a one-shot cue, subscribe one function at any moment
\* and seek in both directions.
InitOneShot ==
    /\ cues \in [CueIds -> OneShotCues]
    /\ time = 0
    /\ playing = FALSE
    /\ timerId = Null
    /\ lastTickTime = Null
    /\ listeners = <<>>
    /\ firedOneShots = {}
    /\ repeatState = <<>>
    /\ now = 0
    /\ timers = {}
    /\ handles = {}
    /\ wrappers = 0
    /\ calls = [c \in DOMAIN cues |-> [f \in Fns |-> 0]]
    /\ fires = <<>>
    /\ skip = NoSkip
    /\ nBack = 0
    /\ nDestroy = 0
    /\ other = Null

SpecOneShot == InitOneShot /\ [][NextSeek]_vars

\* Callers that hold a repeating cue, uncapped or capped by a count or a
\* boundary, subscribe one function at any moment, play and seek
\* backward.
InitRepeating ==
    /\ cues \in [CueIds -> RepeatingCues \cup TimesCues \cup UntilCues]
    /\ time = 0
    /\ playing = FALSE
    /\ timerId = Null
    /\ lastTickTime = Null
    /\ listeners = <<>>
    /\ firedOneShots = {}
    /\ repeatState = <<>>
    /\ now = 0
    /\ timers = {}
    /\ handles = {}
    /\ wrappers = 0
    /\ calls = [c \in DOMAIN cues |-> [f \in Fns |-> 0]]
    /\ fires = <<>>
    /\ skip = NoSkip
    /\ nBack = 0
    /\ nDestroy = 0
    /\ other = Null

NextRewind ==
    \/ clock
    \/ tick
    \/ \E c \in DOMAIN cues : on(c, "f")
    \/ play
    \/ \E timeMs \in 0..MaxSeek : timeMs < time /\ seek(timeMs)

SpecRewind == InitRepeating /\ [][NextRewind]_vars

\* Callers whose timeline loops: they built two cue objects, A one-shot or
\* repeating without a cap and B one-shot, subscribe on the fresh sheet a
\* plain function and one that calls seek(0), and then play and let time
\* pass.
LoopFns == Fns \cup {[fn |-> RewinderId, wrap |-> 0]}

InitLoop ==
    /\ cues \in {q \in [TwoCueIds -> OneShotCues \cup RepeatingCues] :
                    q["B"] \in OneShotCues}
    /\ time = 0
    /\ playing = FALSE
    /\ timerId = Null
    /\ lastTickTime = Null
    /\ listeners = <<>>
    /\ firedOneShots = {}
    /\ repeatState = <<>>
    /\ now = 0
    /\ timers = {}
    /\ handles = {}
    /\ wrappers = 0
    /\ calls = [c \in DOMAIN cues |-> [f \in LoopFns |-> 0]]
    /\ fires = <<>>
    /\ skip = NoSkip
    /\ nBack = 0
    /\ nDestroy = 0
    /\ other = Null

NextLoop ==
    \/ clock
    \/ tick
    \/ \E c \in DOMAIN cues : Fresh /\ on(c, "f")
    \/ \E c \in DOMAIN cues : Fresh /\ on(c, RewinderId)
    \/ play

SpecLoop == InitLoop /\ [][NextLoop]_vars

\* Callers that hold an uncapped repeating cue and subscribe one function
\* to it late, when virtual time is beyond the cue's start: they play,
\* pause, seek forward and let time pass before and after.
InitUncapped ==
    /\ cues \in [CueIds -> RepeatingCues]
    /\ time = 0
    /\ playing = FALSE
    /\ timerId = Null
    /\ lastTickTime = Null
    /\ listeners = <<>>
    /\ firedOneShots = {}
    /\ repeatState = <<>>
    /\ now = 0
    /\ timers = {}
    /\ handles = {}
    /\ wrappers = 0
    /\ calls = [c \in DOMAIN cues |-> [f \in Fns |-> 0]]
    /\ fires = <<>>
    /\ skip = NoSkip
    /\ nBack = 0
    /\ nDestroy = 0
    /\ other = Null

NextLate ==
    \/ clock
    \/ tick
    \/ \E c \in DOMAIN cues : time > cues[c].startTime /\ on(c, "f")
    \/ play
    \/ pause
    \/ \E timeMs \in 0..MaxSeek : timeMs >= time /\ seek(timeMs)

SpecLate == InitUncapped /\ [][NextLate]_vars

\* Callers that hold a one-shot or an uncapped repeating cue, subscribe one
\* function to it, subscribe the same function again while it is
\* subscribed, call the handles they got, play and let time pass.
NextTwice ==
    \/ clock
    \/ tick
    \/ \E c \in DOMAIN cues : get(listeners, c) = <<>> /\ on(c, "f")
    \/ \E c \in DOMAIN cues : onAgain(c, "f")
    \/ \E h \in handles : unsub(h)
    \/ play

SpecTwice == InitPlainCue /\ [][NextTwice]_vars

\* Callers that hold a one-shot or an uncapped repeating cue, subscribe one
\* function on the fresh sheet and play, on a system whose clock goes
\* forward and is set back at times.
NextClockBack ==
    \/ clock
    \/ clockBack
    \/ tick
    \/ \E c \in DOMAIN cues : Fresh /\ on(c, "f")
    \/ play

SpecClockBack == InitPlainCue /\ [][NextClockBack]_vars

\* Callers that made two sheets and subscribe one function to the same
\* count-capped repeating cue on both, each on its fresh sheet; the first
\* sheet plays through, the second is driven in every way: played, paused,
\* sought forward, unsubscribed and, once its time has advanced, destroyed.
SharedCues == {times(repeats(cue(0), 1), n) : n \in 1..MaxCount}

InitSharedCue ==
    /\ cues \in [CueIds -> SharedCues]
    /\ time = 0
    /\ playing = FALSE
    /\ timerId = Null
    /\ lastTickTime = Null
    /\ listeners = <<>>
    /\ firedOneShots = {}
    /\ repeatState = <<>>
    /\ now = 0
    /\ timers = {}
    /\ handles = {}
    /\ wrappers = 0
    /\ calls = [c \in DOMAIN cues |-> [f \in Fns |-> 0]]
    /\ fires = <<>>
    /\ skip = NoSkip
    /\ nBack = 0
    /\ nDestroy = 0
    /\ other = NewSheet

FreshOther ==
    /\ ~OtherEnv.playing /\ OtherEnv.time = 0
    /\ OtherEnv.firedOneShots = {} /\ OtherEnv.repeatState = <<>>

NextTwoSheets ==
    \/ clock
    \/ tick
    \/ \E c \in DOMAIN cues : Fresh /\ on(c, "f")
    \/ play
    \/ otherTick
    \/ \E c \in DOMAIN cues : FreshOther /\ otherOn(c, "f")
    \/ \E c \in DOMAIN cues : otherUnsub(c, "f")
    \/ otherPlay
    \/ otherPause
    \/ \E timeMs \in 0..MaxSeek : timeMs >= OtherEnv.time /\ otherSeek(timeMs)
    \/ OtherEnv.time > 0 /\ otherDestroy

SpecTwoSheets == InitSharedCue /\ [][NextTwoSheets]_vars

\* ------------------------------------------------------------ vocabulary
OnFn(f) == [fn |-> f, wrap |-> 0]

IsOneShot(c) == cues[c].interval = Undefined
IsRepeating(c) == cues[c].interval # Undefined
IsUncapped(c) ==
    IsRepeating(c) /\ cues[c].maxCount = Undefined /\ cues[c].untilTime = Undefined
IsTimes(c) == IsRepeating(c) /\ cues[c].maxCount # Undefined
IsUntil(c) == IsRepeating(c) /\ cues[c].untilTime # Undefined

\* f is currently subscribed to c with on()
Registered(c, f) == \E k \in 1..Len(get(listeners, c)) : get(listeners, c)[k] = OnFn(f)

\* a tick has advanced the sheet since the last play()
Advanced == playing /\ lastTickTime # Null

\* the number of nominal ticks s, s + i, ... that are <= upTo
TicksUpTo(c, upTo) ==
    IF upTo < cues[c].startTime THEN 0
    ELSE (upTo - cues[c].startTime) \div cues[c].interval + 1

\* the last forward seek jumped over the start of c, and no backward seek
\* has gone back before it since
Skipped(c) == skip.from < cues[c].startTime /\ cues[c].startTime <= skip.to

\* c is due in an advance from prevTime to toTime: a one-shot cue that has
\* not fired and whose start lies in (prevTime, toTime], a repeating cue
\* with a nominal tick up to toTime that has not fired yet
DueIn(c, prevTime, toTime) ==
    IF IsOneShot(c)
    THEN c \notin firedOneShots /\ prevTime < cues[c].startTime
         /\ cues[c].startTime <= toTime
    ELSE TicksUpTo(c, toTime) >
            (IF c \in DOMAIN repeatState THEN repeatState[c].count ELSE 0)

\* the cues of the Map, in its iteration order
KeysOf(ls) == [k \in 1..Len(ls) |-> ls[k].cue]

\* the position of c in the Map's iteration order
PosOf(ls, c) == CHOOSE k \in 1..Len(ls) : ls[k].cue = c

\* p is an initial part of q
IsPrefix(p, q) == Len(p) <= Len(q) /\ \A k \in 1..Len(p) : p[k] = q[k]

\* the elements of a sequence
Range(q) == {q[k] : k \in 1..Len(q)}

\* the invocations of an advance that were made for cue c, in order
FiresOf(fs, c) == SelectSeq(fs, LAMBDA e : e.cue = c)

\* no tick timer is pending or remembered and no tick has set its base
Idle == ~playing /\ timers = {} /\ timerId = Null /\ lastTickTime = Null

\* ----------------------------------------------------------------- claims

\* C1 (as claimed): a one-shot cue with startTime t >= 0, subscribed on the
\* fresh sheet, has been invoked exactly once as soon as an advance has
\* brought virtual time to t or beyond, and not at all before.
C1_OneShotExactlyOnce ==
    \A c \in DOMAIN cues, f \in CbIds :
        (IsOneShot(c) /\ Registered(c, f) /\ Advanced) =>
            calls[c][OnFn(f)] = IF time >= cues[c].startTime THEN 1 ELSE 0

\* C2: an uncapped repeating cue subscribed before play has, after every
\* advance, been invoked floor((virtualTime - s) / i) + 1 times when
\* virtualTime >= s and never before, however the span was split.
C2_CatchUpComplete ==
    \A c \in DOMAIN cues, f \in CbIds :
        (IsUncapped(c) /\ Registered(c, f) /\ Advanced) =>
            calls[c][OnFn(f)] = TicksUpTo(c, time)

\* C2 witness: one advance caught up two ticks of an uncapped cue for the
\* same callback, after an earlier advance had fired it already.
C2_Witness ==
    \E c \in DOMAIN cues, f \in CbIds :
        /\ IsUncapped(c) /\ Registered(c, f) /\ Advanced
        /\ \E j, k \in 1..Len(fires) :
              /\ fires[j].cb = OnFn(f) /\ fires[k].cb = OnFn(f)
              /\ fires[j].at < fires[k].at
        /\ calls[c][OnFn(f)] >= 3

\* C3: under advances and forward seeks, a times(n) cue's callback is
\* invoked at most n times, and exactly n times once an advance has brought
\* virtual time to startTime + (n - 1) * interval or beyond.
C3_CountCap ==
    /\ [](\A c \in DOMAIN cues, f \in CbIds :
            IsTimes(c) => calls[c][OnFn(f)] <= cues[c].maxCount)
    /\ [][\A c \in DOMAIN cues, f \in CbIds :
            (/\ IsTimes(c) /\ Registered(c, f) /\ playing /\ tick
             /\ time' >= cues[c].startTime + (cues[c].maxCount - 1) * cues[c].interval)
            => calls'[c][OnFn(f)] = cues[c].maxCount]_vars

\* C3 witness: a times(n) cue with n >= 2 has fired n times and a later
\* advance past its last tick fired nothing.
C3_Witness ==
    \E c \in DOMAIN cues, f \in CbIds :
        /\ IsTimes(c) /\ Registered(c, f) /\ Advanced
        /\ cues[c].maxCount >= 2
        /\ calls[c][OnFn(f)] = cues[c].maxCount
        /\ time > cues[c].startTime + (cues[c].maxCount - 1) * cues[c].interval
        /\ fires = <<>>

\* C4: no invocation of an until(b) cue has a nominal fire time beyond
\* b.startTime, under any advances and seeks.
C4_BoundaryNeverExceeded ==
    \A k \in 1..Len(fires) :
        IsUntil(fires[k].cue) => fires[k].at <= cues[fires[k].cue].untilTime

\* C4 witness: an until cue fired on its boundary in an advance that went
\* at least one interval past it.
C4_Witness ==
    \E k \in 1..Len(fires) :
        /\ IsUntil(fires[k].cue)
        /\ fires[k].at = cues[fires[k].cue].untilTime
        /\ time >= cues[fires[k].cue].untilTime + cues[fires[k].cue].interval
        /\ Advanced

\* C5 (as claimed): an until cue with untilTime u >= s, subscribed before
\* play and advanced without seeks to a time beyond u, has been invoked
\* floor((u - s) / i) + 1 times.
C5_BoundaryInclusive ==
    \A c \in DOMAIN cues, f \in CbIds :
        (/\ IsUntil(c) /\ Registered(c, f) /\ Advanced
         /\ cues[c].untilTime >= cues[c].startTime
         /\ time > cues[c].untilTime)
        => calls[c][OnFn(f)] = TicksUpTo(c, cues[c].untilTime)

\* C6: whenever a step invokes a callback of a cue, virtual time is at or
\* beyond the cue's startTime.
C6_NoPrematureFiring ==
    [][\A c \in DOMAIN cues, f \in Fns :
        calls'[c][f] # calls[c][f] => time' >= cues[c].startTime]_vars

\* C6 witness: a cue with a later start was advanced towards but not yet
\* reached, and nothing was invoked.
C6_Witness ==
    \E c \in DOMAIN cues :
        /\ Registered(c, "f") /\ Advanced
        /\ 0 < time /\ time < cues[c].startTime
        /\ calls[c][OnFn("f")] = 0

\* C7: without a backward seek, a callback subscribed with on() to a
\* one-shot cue is invoked at most once.
C7_OneShotAtMostOnce ==
    nBack = 0 =>
        \A c \in DOMAIN cues, f \in CbIds : IsOneShot(c) => calls[c][OnFn(f)] <= 1

\* C7 witness: a one-shot cue has fired and a later advance, after a
\* forward seek, fired nothing more.
C7_Witness ==
    \E c \in DOMAIN cues :
        /\ IsOneShot(c) /\ Registered(c, "f") /\ Advanced
        /\ nBack = 0 /\ calls[c][OnFn("f")] = 1
        /\ fires = <<>> /\ skip.from >= cues[c].startTime /\ time > skip.to

\* C8: an advance of a subscribed one-shot cue invokes its callback exactly
\* once when it moves virtual time from below startTime to startTime or
\* beyond, also after the cue has fired before, and not otherwise; so
\* every pass that follows a backward seek below startTime fires it again.
C8_BackwardSeekResets ==
    [][\A c \in DOMAIN cues, f \in CbIds :
        (IsOneShot(c) /\ Registered(c, f) /\ playing /\ tick) =>
            calls'[c][OnFn(f)] = calls[c][OnFn(f)] +
                (IF time < cues[c].startTime /\ time' >= cues[c].startTime
                 THEN 1 ELSE 0)]_vars

\* C8 witness: after one backward seek the one-shot cue has fired twice.
C8_Witness ==
    \E c \in DOMAIN cues :
        IsOneShot(c) /\ nBack = 1 /\ calls[c][OnFn("f")] = 2

\* C9: neither the forward seek that jumps over a one-shot cue's startTime
\* nor any later step invokes the cue's callbacks, until a backward seek to
\* a time before startTime (or another forward seek) ends the case.
C9_ForwardSeekSilentOneShot ==
    [][\A c \in DOMAIN cues, f \in CbIds :
        (IsOneShot(c) /\ Skipped(c)') => calls'[c][OnFn(f)] = calls[c][OnFn(f)]]_vars

\* C9 witness: a subscribed one-shot cue was jumped over by a forward seek,
\* a later advance moved on, and the cue has never fired.
C9_Witness ==
    \E c \in DOMAIN cues :
        /\ IsOneShot(c) /\ Registered(c, "f") /\ Skipped(c) /\ Advanced
        /\ time > skip.to
        /\ calls[c][OnFn("f")] = 0

\* C10 (as claimed): an advance that follows a forward seek from a to b
\* fires no tick of a subscribed repeating cue whose nominal time lies in
\* the skipped span (a, b].
C10_ForwardSeekSilentRepeating ==
    [][(playing /\ tick) =>
        \A k \in 1..Len(fires') :
            IsRepeating(fires'[k].cue) =>
                ~(skip.from < fires'[k].at /\ fires'[k].at <= skip.to)]_vars

\* C11: a seek(T) step sets virtualTime to T, playing or paused, invokes no
\* callback and leaves isPlaying and the listeners unchanged; it empties
\* firedOneShots and repeatState when T is less than the previous
\* virtualTime and leaves both unchanged otherwise.
C11_SeekFrame ==
    [][\A timeMs \in 0..MaxSeek :
        seek(timeMs) =>
            /\ time' = timeMs
            /\ calls' = calls
            /\ playing' = playing
            /\ listeners' = listeners
            /\ IF timeMs < time
               THEN firedOneShots' = {} /\ repeatState' = <<>>
               ELSE firedOneShots' = firedOneShots /\ repeatState' = repeatState]_vars

\* C11 witness: a playing sheet whose repeating cue has fired was sought
\* backward, which emptied repeatState, and then forward over a tick of the
\* cue, which invoked nothing.
C11_Witness ==
    \E c \in DOMAIN cues :
        /\ IsRepeating(c) /\ Registered(c, "f") /\ playing
        /\ calls[c][OnFn("f")] = 1 /\ nBack = 1
        /\ repeatState = <<>>
        /\ skip.to > skip.from /\ time = skip.to

\* C12: while the sheet is not playing, no step invokes a callback and
\* only seek() changes virtualTime, however far the wall clock moves; a
\* tick that runs while the sheet is not playing changes nothing of the
\* sheet.
C12_PauseFreezes ==
    /\ [][~playing =>
            /\ calls' = calls
            /\ time' # time => \E timeMs \in 0..MaxSeek : seek(timeMs)]_vars
    /\ [][(~playing /\ tick) =>
            UNCHANGED <<time, playing, timerId, lastTickTime, listeners,
                        firedOneShots, repeatState, calls, fires>>]_vars

\* C12 witness: a timer left pending on a paused sheet has run tick, the
\* wall clock has moved on since the pause, and virtual time stands still
\* before the next tick of the subscribed repeating cue.
C12_Witness ==
    \E c \in DOMAIN cues :
        /\ ~playing /\ timerId # Null /\ timers = {}
        /\ Registered(c, "pauser")
        /\ calls[c][OnFn("pauser")] = 1 /\ IsRepeating(c)
        /\ time < now /\ repeatState[c].lastFireTime + cues[c].interval <= now

\* C13: play() on a sheet that is not playing forgets the last tick, the
\* first tick after it leaves virtualTime where the pause left it, however
\* long the pause, and every later tick adds exactly the wall-clock time
\* since the previous tick, which is what lastTickTime holds while playing.
C13_ResumeExcludesPause ==
    /\ [][(~playing /\ playing') => (lastTickTime' = Null /\ time' = time)]_vars
    /\ [][(playing /\ tick /\ lastTickTime = Null) => time' = time]_vars
    /\ [][(playing /\ tick /\ lastTickTime # Null) =>
            time' = time + (now - lastTickTime)]_vars
    /\ [][(playing /\ tick /\ playing') => lastTickTime' = now]_vars
    /\ [][(playing /\ playing' /\ lastTickTime' # lastTickTime) => tick]_vars

\* C13 witness: a repeating cue's callback paused the sheet at its first
\* fire; after play() and more wall-clock time a later tick fired it again,
\* and virtual time is behind the wall clock.
C13_Witness ==
    \E c \in DOMAIN cues :
        /\ Advanced /\ lastTickTime = now
        /\ calls[c][OnFn("pauser")] = 2
        /\ skip = NoSkip
        /\ 0 < time /\ time < now

\* C14: play() on a playing sheet changes no state: not the last-tick
\* bookkeeping, not the pending timers, not virtualTime. Every pause()
\* leaves the sheet not playing with no timer handle and no last tick, and
\* pause() on a sheet in that state changes no state.
C14_PlayPauseIdempotent ==
    /\ [][(playing /\ play) => UNCHANGED vars]_vars
    /\ [][pause => (~playing' /\ timerId' = Null /\ lastTickTime' = Null)]_vars
    /\ [][(~playing /\ timerId = Null /\ lastTickTime = Null /\ pause) =>
            UNCHANGED vars]_vars

\* C14 witness: a playing sheet that has advanced past time 0 with one
\* timer pending, where a play() that started over would lose the last
\* tick and leave two timers.
C14_Witness ==
    /\ playing /\ lastTickTime # Null /\ lastTickTime < now
    /\ time > 0
    /\ Cardinality(timers) = 1 /\ timerId \in timers

\* C15 (as claimed): calling a handle of on(cue, cb) that has been called
\* before leaves the listeners as they are, whatever happened in between.
C15_UnsubscribeIdempotent ==
    [][\A h \in handles : (h.called /\ unsub(h)) => listeners' = listeners]_vars

\* C16: calling the handle of on(cue, cb) leaves cb unsubscribed from cue,
\* and no step invokes cb for a cue it is not subscribed to when the step
\* begins; so cb is not invoked again unless it is subscribed again, and
\* not at all when the handle is called before the cue first fires.
C16_UnsubscribePrevents ==
    /\ [][\A h \in handles : unsub(h) => ~Registered(h.cue, h.cb.fn)']_vars
    /\ [][\A c \in DOMAIN cues, f \in CbIds :
            ~Registered(c, f) => calls'[c][OnFn(f)] = calls[c][OnFn(f)]]_vars

\* C16 witness: the only handle was called before a one-shot cue with a
\* later start fired; the cue has fired since, with the function
\* unsubscribed, and the function was never invoked.
C16_Witness ==
    \E c \in DOMAIN cues :
        /\ IsOneShot(c) /\ c \in firedOneShots
        /\ handles = {[cue |-> c, cb |-> OnFn("f"), called |-> TRUE]}
        /\ ~Registered(c, "f")
        /\ calls[c][OnFn("f")] = 0

\* C17: a function subscribed with once() is invoked at most once, also
\* for a repeating cue that catches up several ticks in one advance and
\* after backward seeks; and once the returned handle has been called it
\* is not invoked any more, so never if that happened before the first fire.
C17_OnceAtMostOnce ==
    /\ [](\A c \in DOMAIN cues, cb \in Fns : cb.wrap # 0 => calls[c][cb] <= 1)
    /\ [][\A h \in handles :
            (h.cb.wrap # 0 /\ h.called) => calls'[h.cue][h.cb] = calls[h.cue][h.cb]]_vars

\* C17 witness: the once() function of a repeating cue was invoked once;
\* after a backward seek the cue has fired twice more without it.
C17_Witness ==
    \E c \in DOMAIN cues, cb \in Fns :
        /\ cb.wrap # 0 /\ calls[c][cb] = 1
        /\ IsRepeating(c) /\ nBack = 1
        /\ c \in DOMAIN repeatState /\ repeatState[c].count >= 2
        /\ fires = <<>>

\* C19 (as claimed): in an advance in which a callback throws, the plain
\* callback subscribed to any cue that is due in that advance, the
\* thrower's own cue included, is still invoked in that advance.
C19_FailureIsolation ==
    [][(playing /\ tick /\ \E k \in 1..Len(fires') : fires'[k].cb.fn = "thrower") =>
        \A c \in DOMAIN cues :
            (Registered(c, "g") /\ DueIn(c, time, time')) =>
                \E j \in 1..Len(fires') :
                    fires'[j].cue = c /\ fires'[j].cb = OnFn("g")]_vars

\* C20: once a callback has called the unsubscribe handles of g during an
\* advance, g is not invoked in the rest of that advance, not as a later
\* callback of the same cue, not for later catch-up ticks, not for a later
\* cue; g is left unsubscribed and no later step invokes it.
C20_InFlightCancellation ==
    /\ [][(playing /\ tick) =>
            \A k \in 1..Len(fires') :
                fires'[k].cb.fn = "canceller" =>
                    /\ \A j \in (k + 1)..Len(fires') : fires'[j].cb # OnFn("g")
                    /\ \A c \in DOMAIN cues : ~Registered(c, "g")']_vars
    /\ [][\A c \in DOMAIN cues :
            ~Registered(c, "g") => calls'[c][OnFn("g")] = calls[c][OnFn("g")]]_vars

\* C20 witness: in one advance a repeating cue fired g and then the
\* canceller on its first tick, caught up a second tick without g, and a
\* one-shot cue subscribed later fired without invoking its g.
C20_Witness ==
    \E c1, c2 \in DOMAIN cues :
        /\ Len(listeners) = 2 /\ listeners[1].cue = c1 /\ listeners[2].cue = c2
        /\ IsRepeating(c1) /\ IsOneShot(c2)
        /\ Len(fires) = 3
        /\ fires[1].cb = OnFn("g") /\ fires[2].cb = OnFn("canceller")
        /\ fires[3].cb = OnFn("canceller") /\ fires[3].at > fires[2].at
        /\ c2 \in firedOneShots
        /\ \E h \in handles : h.cue = c2 /\ h.cb = OnFn("g")
        /\ calls[c2][OnFn("g")] = 0

\* C18: no operation of the second sheet (tick, on, unsubscribe, play,
\* pause, seek, destroy) changes the first sheet's virtualTime, play state,
\* timer, listeners, fired set, repeat state or fire counts, and no
\* operation of the first sheet changes anything of the second; the first
\* sheet's fire count of the shared cue is what its own virtual time
\* determines, whatever was done to the second sheet.
C18_IndependentInstances ==
    /\ [][(\/ otherTick
           \/ \E c \in DOMAIN cues : otherOn(c, "f")
           \/ \E c \in DOMAIN cues : otherUnsub(c, "f")
           \/ otherPlay
           \/ otherPause
           \/ \E timeMs \in 0..MaxSeek : otherSeek(timeMs)
           \/ otherDestroy) =>
            UNCHANGED <<time, playing, timerId, lastTickTime, timers, listeners,
                        firedOneShots, repeatState, calls>>]_vars
    /\ [][(tick \/ play \/ \E c \in DOMAIN cues : on(c, "f")) => other' = other]_vars
    /\ [](\A c \in DOMAIN cues :
            (Registered(c, "f") /\ Advanced) =>
                calls[c][OnFn("f")] =
                    (IF TicksUpTo(c, time) < cues[c].maxCount
                     THEN TicksUpTo(c, time) ELSE cues[c].maxCount))

\* C18 witness: the shared cue has fired its full count of two on the
\* first sheet, which is still subscribed and playing, and once on the
\* second sheet, which is ahead in time and has been destroyed since.
C18_Witness ==
    \E c \in DOMAIN cues :
        /\ Registered(c, "f") /\ Advanced
        /\ calls[c][OnFn("f")] = 2 /\ cues[c].maxCount = 2
        /\ other.calls[c][OnFn("f")] = 1
        /\ other.time > time
        /\ ~other.playing /\ other.listeners = <<>>

\* C21: the Map keeps the cues in the order of their first subscription (a
\* newly subscribed cue goes last, no step reorders or drops a cue), and the
\* invocations of one advance follow that order: of two invocations, the
\* earlier one is for a cue subscribed earlier, or for the same cue and a
\* nominal time that is not later; one function is invoked for one cue at
\* strictly increasing nominal times.
C21_FiringOrder ==
    /\ [][IsPrefix(KeysOf(listeners), KeysOf(listeners'))]_vars
    /\ [][\A c \in DOMAIN cues :
            (on(c, "f") /\ ~has(listeners, c)) =>
                KeysOf(listeners') = Append(KeysOf(listeners), c)]_vars
    /\ [][tick =>
            \A i, j \in 1..Len(fires') :
                i < j =>
                    /\ \/ PosOf(listeners, fires'[i].cue) < PosOf(listeners, fires'[j].cue)
                       \/ /\ fires'[i].cue = fires'[j].cue
                          /\ fires'[i].at <= fires'[j].at
                    /\ (fires'[i].cue = fires'[j].cue /\ fires'[i].cb = fires'[j].cb) =>
                            fires'[i].at < fires'[j].at]_vars

\* C21 witness: one advance has fired two ticks of the repeating cue
\* subscribed first and then the one-shot cue subscribed after it, whose
\* nominal time is earlier than the last of those ticks.
C21_Witness ==
    \E i, j, k \in 1..Len(fires) :
        /\ i < j /\ j < k
        /\ fires[i].cue = fires[j].cue /\ fires[i].at < fires[j].at
        /\ fires[k].cue # fires[j].cue /\ fires[k].at < fires[j].at
        /\ PosOf(listeners, fires[j].cue) < PosOf(listeners, fires[k].cue)

\* C22: a function subscribed to a cue goes last in the cue's Set unless it
\* is in it already, no other step adds to the Set or reorders it, and each
\* time the cue fires in an advance every function of the Set is invoked,
\* in the order of the Set: the invocations for the cue are whole rounds of
\* the Set, one round per tick, at strictly increasing nominal times.
C22_SubscriptionOrder ==
    /\ [][\A c \in DOMAIN cues, f \in CbIds :
            on(c, f) =>
                get(listeners', c) =
                    IF Registered(c, f) THEN get(listeners, c)
                    ELSE Append(get(listeners, c), OnFn(f))]_vars
    /\ [][\A c \in DOMAIN cues :
            ~(\E f \in CbIds : on(c, f)) =>
                get(listeners', c) =
                    SelectSeq(get(listeners, c),
                              LAMBDA cb : cb \in Range(get(listeners', c)))]_vars
    /\ [][tick =>
            \A c \in DOMAIN cues :
                LET fs == FiresOf(fires', c)
                    cbs == get(listeners, c)
                    n == Len(cbs)
                IN  IF n = 0 THEN fs = <<>>
                    ELSE /\ Len(fs) % n = 0
                         /\ \A i \in 1..Len(fs) :
                                LET first == i - ((i - 1) % n) IN
                                /\ fs[i].cb = cbs[((i - 1) % n) + 1]
                                /\ fs[i].at = fs[first].at
                                /\ first > 1 => fs[first - 1].at < fs[i].at]_vars

\* C22 witness: f was subscribed, unsubscribed and subscribed again after
\* g, and one advance has fired two ticks of the cue, each invoking g and
\* then f.
C22_Witness ==
    \E c \in DOMAIN cues :
        /\ get(listeners, c) = <<OnFn("g"), OnFn("f")>>
        /\ \E h \in handles : h.cue = c /\ h.cb = OnFn("f") /\ h.called
        /\ Len(fires) = 4
        /\ fires[1].cb = OnFn("g") /\ fires[2].cb = OnFn("f")
        /\ fires[3].cb = OnFn("g") /\ fires[4].cb = OnFn("f")
        /\ fires[1].at = fires[2].at /\ fires[2].at < fires[3].at
        /\ fires[3].at = fires[4].at

\* C23: destroy() leaves the sheet not playing, with no timer of its own
\* and with listeners, firedOneShots and repeatState empty; and while no
\* function is subscribed anew, the listeners stay empty and no step, a
\* tick after a later play() included, invokes anything.
C23_DestroyClears ==
    /\ [][destroy =>
            /\ ~playing' /\ timerId' = Null
            /\ listeners' = <<>> /\ firedOneShots' = {} /\ repeatState' = <<>>]_vars
    /\ [][(listeners = <<>> /\ ~(\E c \in DOMAIN cues : on(c, "f"))) =>
            (listeners' = <<>> /\ calls' = calls)]_vars
    /\ [][(listeners = <<>> /\ tick) => fires' = <<>>]_vars

\* C23 witness: an uncapped repeating cue was invoked, the sheet was
\* destroyed and played again, and an advance has passed further ticks of
\* the cue without an invocation.
C23_Witness ==
    \E c \in DOMAIN cues :
        /\ IsUncapped(c)
        /\ nDestroy = 1 /\ listeners = <<>>
        /\ Advanced
        /\ calls[c][OnFn("f")] >= 1
        /\ calls[c][OnFn("f")] < TicksUpTo(c, time)

\* how far along the chain a cue's fields put it: 0 one-shot, 1 repeating,
\* 2 terminated
RankOf(v) ==
    IF v.interval = Undefined THEN 0
    ELSE IF v.maxCount = Undefined /\ v.untilTime = Undefined THEN 1 ELSE 2

\* C24: every cue of the chain has a startTime; without an interval it has
\* neither maxCount nor untilTime, and no cue has both. cue(t) is made with
\* startTime t and nothing else; a successful repeats(i) yields interval i
\* and no terminator, times(n) yields maxCount n and no untilTime,
\* until(b) yields untilTime = b.startTime and no maxCount, and each keeps
\* the startTime, times and until the interval too.
C24_CueShape ==
    /\ [](\A c \in DOMAIN cues :
            IsCue(cues[c]) =>
                /\ cues[c].startTime # Undefined
                /\ cues[c].interval = Undefined =>
                        (cues[c].maxCount = Undefined /\ cues[c].untilTime = Undefined)
                /\ ~(cues[c].maxCount # Undefined /\ cues[c].untilTime # Undefined))
    /\ \A t \in 0..MaxStart :
            /\ cue(t).startTime = t /\ cue(t).interval = Undefined
            /\ cue(t).maxCount = Undefined /\ cue(t).untilTime = Undefined
    /\ [][\A c \in DOMAIN cues, i \in 1..MaxInterval :
            (callRepeats(c, i) /\ IsCue(cues'[c])) =>
                /\ cues'[c].startTime = cues[c].startTime
                /\ cues'[c].interval = i
                /\ cues'[c].maxCount = Undefined /\ cues'[c].untilTime = Undefined]_vars
    /\ [][\A c \in DOMAIN cues, n \in 1..MaxCount :
            (callTimes(c, n) /\ IsCue(cues'[c])) =>
                /\ cues'[c].startTime = cues[c].startTime
                /\ cues'[c].interval = cues[c].interval
                /\ cues'[c].maxCount = n /\ cues'[c].untilTime = Undefined]_vars
    /\ [][\A c, b \in DOMAIN cues :
            (callUntil(c, b) /\ IsCue(cues'[c])) =>
                /\ cues'[c].startTime = cues[c].startTime
                /\ cues'[c].interval = cues[c].interval
                /\ cues'[c].untilTime = cues[b].startTime
                /\ cues'[c].maxCount = Undefined]_vars

\* C24 witness: A is cue(1).repeats(2).until(B) made when B was a repeating
\* cue starting at 2, and B is now capped by a count of 2.
C24_Witness ==
    /\ IsCue(cues["A"]) /\ IsCue(cues["B"])
    /\ cues["A"].startTime = 1 /\ cues["A"].interval = 2
    /\ cues["A"].untilTime = 2 /\ cues["A"].maxCount = Undefined
    /\ cues["B"].startTime = 2 /\ cues["B"].interval = 1
    /\ cues["B"].maxCount = 2 /\ cues["B"].untilTime = Undefined

\* C25: repeats() called on a repeating or a terminated cue throws and
\* yields no cue, as does times() or until() called on a cue that does not
\* carry them, which a one-shot and a terminated cue do not; a call that
\* yields a cue moves the chain one stage on: one-shot to repeating by
\* repeats(), repeating to terminated by times() or until().
C25_ChainMisuseFails ==
    /\ [][\A c \in DOMAIN cues, i \in 1..MaxInterval :
            callRepeats(c, i) =>
                IF RankOf(cues[c]) = 0
                THEN IsCue(cues'[c]) /\ RankOf(cues'[c]) = 1
                ELSE cues'[c] = Throw(IF RankOf(cues[c]) = 1 THEN "Already repeating"
                                      ELSE "Already terminated")]_vars
    /\ [][\A c \in DOMAIN cues :
            ((\E n \in 1..MaxCount : callTimes(c, n))
                \/ (\E b \in DOMAIN cues : callUntil(c, b))) =>
                IF RankOf(cues[c]) = 1
                THEN IsCue(cues'[c]) /\ RankOf(cues'[c]) = 2
                ELSE ~IsCue(cues'[c])]_vars
    /\ [](\A c \in DOMAIN cues :
            (IsCue(cues[c]) /\ RankOf(cues[c]) = 2) =>
                ("times" \notin methods(cues[c]) /\ "until" \notin methods(cues[c])))

\* C25 witness: repeats() was called on the repeating cue A and on the
\* terminated cue B, and both calls threw.
C25_Witness ==
    /\ cues["A"] = Throw("Already repeating")
    /\ cues["B"] = Throw("Already terminated")

\* the fire count a repeating cue with count fires so far has after an
\* advance to toTime that looks at it: every nominal tick up to toTime and
\* up to its boundary, up to its cap, and never fewer than before
CountAfter(c, count, toTime) ==
    LET upTo == IF toTime < endTimeOf(c) THEN toTime ELSE endTimeOf(c)
        ticks == TicksUpTo(c, upTo)
        capped == IF cues[c].maxCount # Undefined /\ ticks > cues[c].maxCount
                  THEN cues[c].maxCount ELSE ticks
    IN  IF capped > count THEN capped ELSE count

CountOf(rs, c) == IF c \in DOMAIN rs THEN rs[c].count ELSE 0

\* C26: with two cue objects of identical fields, subscribing to one or
\* calling a handle of one leaves the other's Set as it is, each has its
\* own entry in the Map, and what an advance does for a cue follows from
\* that cue's own entries alone: a one-shot cue fires when it is itself
\* not in firedOneShots and its start lies in (prevTime, toTime], a
\* repeating cue goes from its own count to the count its own ticks give,
\* and a cue without an entry in the Map gets no firing state.
C26_IdentityKeys ==
    /\ [][\A c, d \in DOMAIN cues :
            (d # c /\ (on(c, "f") \/ \E h \in handles : h.cue = c /\ unsub(h))) =>
                /\ has(listeners', d) = has(listeners, d)
                /\ get(listeners', d) = get(listeners, d)]_vars
    /\ [][\A c \in DOMAIN cues : on(c, "f") => Registered(c, "f")']_vars
    /\ [][(playing /\ tick) =>
            \A c \in DOMAIN cues :
                LET invoked == calls'[c][OnFn("f")] - calls[c][OnFn("f")]
                    due == IF IsOneShot(c)
                           THEN IF c \notin firedOneShots /\ time < cues[c].startTime
                                   /\ cues[c].startTime <= time'
                                THEN 1 ELSE 0
                           ELSE IF time' < cues[c].startTime \/ time >= endTimeOf(c)
                                THEN 0
                                ELSE CountAfter(c, CountOf(repeatState, c), time')
                                        - CountOf(repeatState, c)
                IN  IF has(listeners, c)
                    THEN /\ invoked = IF Registered(c, "f") THEN due ELSE 0
                         /\ (c \in firedOneShots') = (c \in firedOneShots \/ (IsOneShot(c) /\ due = 1))
                         /\ CountOf(repeatState', c) =
                                CountOf(repeatState, c) + IF IsRepeating(c) THEN due ELSE 0
                    ELSE /\ invoked = 0
                         /\ (c \in firedOneShots') = (c \in firedOneShots)
                         /\ (c \in DOMAIN repeatState') = (c \in DOMAIN repeatState)]_vars

\* C26 witness: A and B have identical fields, f was subscribed to both,
\* the handle of A was called, and an advance has invoked f for B and not
\* for A.
C26_Witness ==
    /\ cues["A"] = cues["B"]
    /\ \E h \in handles : h.cue = "A" /\ h.called
    /\ has(listeners, "A") /\ ~Registered("A", "f") /\ Registered("B", "f")
    /\ calls["A"][OnFn("f")] = 0 /\ calls["B"][OnFn("f")] >= 1

\* C27: the sheet starts at currentTime 0, not playing, with no tick timer;
\* only play() ends that, so it lasts until play() is called; and while it
\* lasts no tick can run, the passing of wall-clock time changes nothing
\* but the wall clock, no step invokes a function and only seek() changes
\* currentTime.
C27_FreshSheetIdle ==
    /\ (time = 0 /\ Idle /\ \A c \in DOMAIN cues, cb \in Fns : calls[c][cb] = 0)
    /\ [][(Idle /\ ~play) => Idle']_vars
    /\ [][Idle => ~tick]_vars
    /\ [][(Idle /\ clock) =>
            UNCHANGED <<time, playing, calls, fires, listeners, firedOneShots,
                        repeatState>>]_vars
    /\ [][Idle => calls' = calls]_vars
    /\ [][(Idle /\ ~(\E timeMs \in 0..MaxSeek : seek(timeMs))) => time' = time]_vars

\* C27 witness: play() has not been called; a one-shot cue starting at 1
\* has a subscriber, currentTime is still 0 and the wall clock is at its
\* bound, and the sheet was paused and destroyed meanwhile.
C27_Witness ==
    \E c \in DOMAIN cues :
        /\ IsOneShot(c) /\ cues[c].startTime = 1
        /\ Registered(c, "f")
        /\ Idle /\ time = 0 /\ now = MaxNow
        /\ nDestroy = 1
        /\ calls[c][OnFn("f")] = 0

\* C28 (as claimed): every invocation made by an advance that moves virtual
\* time from prevTime to toTime is for a nominal fire time t with
\* prevTime < t <= toTime.
C28_ResolutionWindow ==
    [][(playing /\ tick) =>
        \A i \in 1..Len(fires') : time < fires'[i].at /\ fires'[i].at <= time']_vars

\* C29: an advance from prevTime to toTime invokes the function subscribed
\* to a one-shot cue, once, if and only if the cue is not in firedOneShots
\* and prevTime < startTime <= toTime; the cue is in firedOneShots exactly
\* from such an advance until the next backward seek. Hence from a state
\* with virtualTime >= startTime no step invokes it, however the cue got
\* there (subscribed late, or passed by a seek), and virtualTime goes down
\* only by a backward seek.
C29_OneShotWindow ==
    /\ [][(playing /\ tick) =>
            \A c \in DOMAIN cues :
                (IsOneShot(c) /\ Registered(c, "f")) =>
                    calls'[c][OnFn("f")] = calls[c][OnFn("f")] +
                        IF c \notin firedOneShots /\ time < cues[c].startTime
                           /\ cues[c].startTime <= time'
                        THEN 1 ELSE 0]_vars
    /\ [][\A c \in DOMAIN cues :
            IsOneShot(c) =>
                (c \in firedOneShots') =
                    IF playing /\ tick
                    THEN \/ c \in firedOneShots
                         \/ /\ has(listeners, c)
                            /\ time < cues[c].startTime /\ cues[c].startTime <= time'
                    ELSE IF \E timeMs \in 0..MaxSeek : timeMs < time /\ seek(timeMs)
                         THEN FALSE
                         ELSE c \in firedOneShots]_vars
    /\ [][\A c \in DOMAIN cues :
            (IsOneShot(c) /\ time >= cues[c].startTime) => calls'[c] = calls[c]]_vars
    /\ [][time' < time => \E timeMs \in 0..MaxSeek : timeMs < time /\ seek(timeMs)]_vars

\* C29 witness: a one-shot cue starting at 1 has a subscriber and has not
\* fired, and the playing sheet has advanced to 3 or beyond without
\* invoking it.
C29_Witness ==
    \E c \in DOMAIN cues :
        /\ IsOneShot(c) /\ cues[c].startTime = 1
        /\ Registered(c, "f") /\ Advanced
        /\ c \notin firedOneShots
        /\ time >= 3
        /\ calls[c][OnFn("f")] = 0

\* C30: every repeatState entry has count >= 0 and lastFireTime =
\* startTime + (count - 1) * interval, which for count 0 is the seed
\* startTime - interval and for count 1 is startTime; and every invocation
\* of the last advance for a repeating cue is for a nominal time
\* startTime + k * interval with k >= 0.
C30_NominalGrid ==
    /\ \A c \in DOMAIN repeatState :
            /\ repeatState[c].count >= 0
            /\ repeatState[c].lastFireTime =
                    cues[c].startTime + (repeatState[c].count - 1) * cues[c].interval
    /\ \A i \in 1..Len(fires) :
            IsRepeating(fires[i].cue) =>
                /\ fires[i].at >= cues[fires[i].cue].startTime
                /\ (fires[i].at - cues[fires[i].cue].startTime)
                        % cues[fires[i].cue].interval = 0

\* C30 witness: after a backward seek, a repeating cue starting at 1 with
\* interval 2 has fired twice again, in two advances, and its last fire
\* time is 3.
C30_Witness ==
    \E c \in DOMAIN repeatState :
        /\ cues[c].startTime = 1 /\ cues[c].interval = 2
        /\ nBack = 1
        /\ repeatState[c].count = 2 /\ repeatState[c].lastFireTime = 3
        /\ time = 4 /\ Len(fires) = 1

\* the nominal times of the first n ticks of c
NominalTicks(c, n) == [k \in 1..n |-> cues[c].startTime + (k - 1) * cues[c].interval]

\* C31 (as claimed): after a backward seek every subscribed repeating cue
\* is back at fire count 0, and the next advance that reaches startTime
\* fires it again from the nominal tick at startTime on: every tick up to
\* toTime, up to maxCount and up to untilTime, wherever the seek landed.
C31_BackwardSeekRefires ==
    /\ [][\A timeMs \in 0..MaxSeek :
            (timeMs < time /\ seek(timeMs)) =>
                \A c \in DOMAIN cues : CountOf(repeatState', c) = 0]_vars
    /\ [][(playing /\ tick) =>
            \A c \in DOMAIN cues :
                (/\ IsRepeating(c) /\ has(listeners, c) /\ CountOf(repeatState, c) = 0
                 /\ nBack > 0
                 /\ time' >= cues[c].startTime) =>
                    LET n == CountAfter(c, 0, time') IN
                    /\ CountOf(repeatState', c) = n
                    /\ Registered(c, "f") =>
                        /\ calls'[c][OnFn("f")] = calls[c][OnFn("f")] + n
                        /\ Len(FiresOf(fires', c)) = n]_vars

\* C31 (amended): a backward seek leaves no repeatState entry, so every
\* repeating cue is back at fire count 0. The next advance that reaches
\* startTime fires the cue from the nominal tick at startTime on: every
\* tick up to toTime, up to maxCount and up to the boundary, whatever the
\* cue fired before the seek; except that an advance that begins at or
\* beyond untilTime, as after a seek that landed there, fires nothing and
\* leaves the count at 0. So a times(n) cue is invoked up to n times more
\* after each backward seek.
C31_BackwardSeekResetsRepeating ==
    /\ [][\A timeMs \in 0..MaxSeek :
            (timeMs < time /\ seek(timeMs)) =>
                \A c \in DOMAIN cues : CountOf(repeatState', c) = 0]_vars
    /\ [][(playing /\ tick) =>
            \A c \in DOMAIN cues :
                (/\ IsRepeating(c) /\ has(listeners, c) /\ CountOf(repeatState, c) = 0
                 /\ time' >= cues[c].startTime) =>
                    LET n == IF time >= endTimeOf(c) THEN 0
                             ELSE CountAfter(c, 0, time') IN
                    /\ CountOf(repeatState', c) = n
                    /\ Registered(c, "f") =>
                        /\ calls'[c][OnFn("f")] = calls[c][OnFn("f")] + n
                        /\ Len(FiresOf(fires', c)) = n
                        /\ [k \in 1..n |-> FiresOf(fires', c)[k].at] = NominalTicks(c, n)]_vars
    /\ [](\A c \in DOMAIN cues :
            IsTimes(c) => calls[c][OnFn("f")] <= (nBack + 1) * cues[c].maxCount)

\* C31 witness: a times(2) cue starting at 0 fired twice, the sheet was
\* sought backward, to a time that is not before the cue's start, and the
\* cue has fired twice again, the second time in an advance of its own.
C31_Witness ==
    \E c \in DOMAIN cues :
        /\ IsTimes(c) /\ cues[c].maxCount = 2 /\ Registered(c, "f")
        /\ cues[c].startTime = 0
        /\ nBack = 1 /\ skip = NoSkip
        /\ calls[c][OnFn("f")] = 4
        /\ repeatState[c].count = 2
        /\ Len(fires) = 1 /\ fires[1].at = cues[c].startTime + cues[c].interval

\* C31, boundary-capped cue sought back below its boundary: an until cue
\* starting at 0 with interval 1 and boundary 2 fired twice, the sheet was
\* sought backward to 0, and the next advance fired the ticks at 0 and 1
\* again.
C31_WitnessUntil ==
    \E c \in DOMAIN cues :
        /\ IsUntil(c) /\ cues[c].untilTime = 2 /\ Registered(c, "f")
        /\ cues[c].startTime = 0 /\ cues[c].interval = 1
        /\ nBack = 1 /\ time = 1
        /\ calls[c][OnFn("f")] = 4
        /\ repeatState[c].count = 2
        /\ Len(fires) = 2 /\ fires[1].at = 0 /\ fires[2].at = 1

\* C31, boundary-capped cue sought back to its boundary: an until cue
\* starting at 0 with interval 1 and boundary 1 fired twice, the sheet was
\* sought backward to a time at or beyond the boundary, and the cue has no
\* fire count and has not fired again.
C31_WitnessBeyond ==
    \E c \in DOMAIN cues :
        /\ IsUntil(c) /\ cues[c].untilTime = 1 /\ Registered(c, "f")
        /\ cues[c].startTime = 0 /\ cues[c].interval = 1
        /\ nBack = 1 /\ time = 2 /\ now = 3 /\ lastTickTime = 3
        /\ calls[c][OnFn("f")] = 2
        /\ c \notin DOMAIN repeatState
        /\ fires = <<>>

\* C32 (as claimed): in every reachable state each cue in firedOneShots
\* has startTime <= virtualTime, and each repeatState entry has
\* startTime <= virtualTime, lastFireTime <= virtualTime, count >= 0,
\* count <= maxCount when the cue is count-capped and, when it is
\* boundary-capped and count >= 1, lastFireTime <= untilTime.
C32_FiringStateInvariant ==
    /\ \A c \in firedOneShots : cues[c].startTime <= time
    /\ \A c \in DOMAIN repeatState :
            /\ cues[c].startTime <= time
            /\ repeatState[c].lastFireTime <= time
            /\ repeatState[c].count >= 0
            /\ cues[c].maxCount # Undefined => repeatState[c].count <= cues[c].maxCount
            /\ (cues[c].untilTime # Undefined /\ repeatState[c].count >= 1) =>
                    repeatState[c].lastFireTime <= cues[c].untilTime

\* C33 (as claimed): between ticks, exactly one tick timer is pending when
\* the sheet is playing and none when it is not, in every sequence of
\* operations and ticks, those in which a callback calls pause() included.
C33_TickTimerInvariant ==
    IF playing THEN Cardinality(timers) = 1 ELSE timers = {}

\* C34 (as claimed): once a callback has called pause() during an advance,
\* no further callback is invoked in that advance (no sibling, no catch-up
\* tick of the same cue, no later cue), and none afterwards while the
\* sheet is not playing.
C34_PauseInCallbackImmediate ==
    /\ [][(playing /\ tick) =>
            \A k \in 1..Len(fires') :
                fires'[k].cb.fn = "pauser" => k = Len(fires')]_vars
    /\ [][~playing => calls' = calls]_vars

\* C35: subscribing to an uncapped repeating cue that is not in the Map,
\* at a virtual time T beyond its startTime s, invokes nothing and creates
\* no repeatState entry; the next advance, to toTime, then invokes the
\* function floor((toTime - s) / i) + 1 times, for the nominal ticks s,
\* s + i, ... up to toTime, those before T included.
C35_LateSubscriptionCatchUp ==
    /\ [][\A c \in DOMAIN cues :
            (/\ on(c, "f") /\ IsUncapped(c) /\ ~has(listeners, c)
             /\ time > cues[c].startTime) =>
                /\ Registered(c, "f")' /\ calls' = calls
                /\ c \notin DOMAIN repeatState /\ c \notin DOMAIN repeatState']_vars
    /\ [][(playing /\ tick) =>
            \A c \in DOMAIN cues :
                (/\ IsUncapped(c) /\ Registered(c, "f") /\ c \notin DOMAIN repeatState
                 /\ time > cues[c].startTime) =>
                    LET n == (time' - cues[c].startTime) \div cues[c].interval + 1 IN
                    /\ calls'[c][OnFn("f")] = calls[c][OnFn("f")] + n
                    /\ Len(FiresOf(fires', c)) = n
                    /\ [k \in 1..n |-> FiresOf(fires', c)[k].at] = NominalTicks(c, n)]_vars

\* C35 witness: the function was subscribed at a virtual time beyond the
\* cue's start, and the advance after that has invoked it three times or
\* more, first for the nominal tick at startTime, to a total of
\* floor((toTime - s) / i) + 1.
C35_Witness ==
    \E c \in DOMAIN cues :
        /\ IsUncapped(c) /\ Registered(c, "f") /\ Advanced
        /\ Len(fires) >= 3 /\ fires[1].at = cues[c].startTime
        /\ calls[c][OnFn("f")] = Len(fires)
        /\ Len(fires) = (time - cues[c].startTime) \div cues[c].interval + 1

\* C36: the firing state belongs to the cue and moves with every advance
\* for every cue of the Map, whatever its Set holds, an empty Set included:
\* a one-shot cue whose start lies in (prevTime, toTime] is recorded as
\* fired, a repeating cue's count goes up by its due ticks. on() and the
\* handles leave the firing state alone, and no step invokes a function
\* for a one-shot cue that is recorded as fired; so a function subscribed
\* after the cue fired with an empty Set is not invoked until a backward
\* seek has cleared the record.
C36_StatePerCue ==
    /\ [][(playing /\ tick) =>
            \A c \in DOMAIN cues :
                has(listeners, c) =>
                    /\ get(listeners, c) = <<>> => FiresOf(fires', c) = <<>>
                    /\ IsOneShot(c) =>
                        (c \in firedOneShots') =
                            (\/ c \in firedOneShots
                             \/ time < cues[c].startTime /\ cues[c].startTime <= time')
                    /\ IsRepeating(c) =>
                        CountOf(repeatState', c) =
                            IF time' < cues[c].startTime \/ time >= endTimeOf(c)
                            THEN CountOf(repeatState, c)
                            ELSE CountAfter(c, CountOf(repeatState, c), time')]_vars
    /\ [][((\E c \in DOMAIN cues : on(c, "f")) \/ (\E h \in handles : unsub(h))) =>
            UNCHANGED <<firedOneShots, repeatState>>]_vars
    /\ [][\A c \in DOMAIN cues :
            (IsOneShot(c) /\ c \in firedOneShots) => calls'[c] = calls[c]]_vars
    /\ [][\A c \in DOMAIN cues :
            (c \in firedOneShots /\ c \notin firedOneShots') =>
                \E timeMs \in 0..MaxSeek : timeMs < time /\ seek(timeMs)]_vars

\* C36 witness: the function was unsubscribed from a one-shot cue, the cue
\* fired with its Set empty, the function was subscribed again, and a
\* later advance has moved on without invoking it.
C36_Witness ==
    \E c \in DOMAIN cues :
        /\ IsOneShot(c) /\ c \in firedOneShots
        /\ \E h \in handles : h.cue = c /\ h.called
        /\ Registered(c, "f") /\ Advanced
        /\ nBack = 0 /\ calls[c][OnFn("f")] = 0
        /\ time > cues[c].startTime + 1

\* C36 witness for a repeating cue is the same case with a count: the
\* cue's count has reached 2 while the function, unsubscribed before the
\* first tick, has never been invoked.
C36_WitnessRepeating ==
    \E c \in DOMAIN repeatState :
        /\ \E h \in handles : h.cue = c /\ h.called
        /\ get(listeners, c) = <<>>
        /\ nBack = 0 /\ calls[c][OnFn("f")] = 0
        /\ repeatState[c].count >= 2

\* the handle is the one a second on() call for the same function returned
IsSecond(h) == "second" \in DOMAIN h

\* C37: on(c, f) for a function that is subscribed to c already leaves the
\* listeners as they are, and no Set ever holds a function twice; an
\* advance invokes the function once for each tick that is due, and once
\* at most for each nominal time. Calling any handle of (c, f), the first
\* or the second, leaves f unsubscribed, and no step invokes a function
\* that is not subscribed.
C37_DuplicateSubscription ==
    /\ [][\A c \in DOMAIN cues : onAgain(c, "f") => listeners' = listeners]_vars
    /\ [](\A c \in DOMAIN cues :
            Cardinality(Range(get(listeners, c))) = Len(get(listeners, c)))
    /\ [][(playing /\ tick) =>
            \A c \in DOMAIN cues :
                Registered(c, "f") =>
                    /\ Len(FiresOf(fires', c)) =
                            IF IsOneShot(c)
                            THEN IF DueIn(c, time, time') THEN 1 ELSE 0
                            ELSE IF time' < cues[c].startTime THEN 0
                                 ELSE CountAfter(c, CountOf(repeatState, c), time')
                                        - CountOf(repeatState, c)
                    /\ calls'[c][OnFn("f")] = calls[c][OnFn("f")] + Len(FiresOf(fires', c))
                    /\ \A i, j \in 1..Len(fires') : i < j => fires'[i].at < fires'[j].at]_vars
    /\ [][\A h \in handles : unsub(h) => ~Registered(h.cue, h.cb.fn)']_vars
    /\ [][\A c \in DOMAIN cues :
            ~Registered(c, "f") => calls'[c][OnFn("f")] = calls[c][OnFn("f")]]_vars

\* C37 witness: the function was subscribed twice to a repeating cue and
\* invoked once for each of its ticks up to the current time; then the
\* second handle was called, the first never; the function is unsubscribed,
\* and the cue has fired a further tick without invoking it.
C37_Witness ==
    \E c \in DOMAIN cues :
        /\ IsRepeating(c) /\ ~Registered(c, "f")
        /\ \E h \in handles : h.cue = c /\ IsSecond(h) /\ h.called
        /\ \E h \in handles : h.cue = c /\ ~IsSecond(h) /\ ~h.called
        /\ \A h \in handles : ~IsSecond(h) => ~h.called
        /\ calls[c][OnFn("f")] >= 1
        /\ c \in DOMAIN repeatState
        /\ repeatState[c].count = calls[c][OnFn("f")] + 1
        /\ Advanced

\* C37 witness for the first handle: both handles were returned, the first
\* was called and the second was not, and the function is unsubscribed.
C37_WitnessFirst ==
    \E c \in DOMAIN cues :
        /\ ~Registered(c, "f")
        /\ \E h \in handles : h.cue = c /\ IsSecond(h) /\ ~h.called
        /\ \E h \in handles : h.cue = c /\ ~IsSecond(h) /\ h.called
        /\ \A h \in handles : IsSecond(h) => ~h.called
        /\ c \in firedOneShots /\ calls[c][OnFn("f")] = 0 /\ Advanced

\* C38: with intervals of 1 or more, one advance to toTime makes, for each
\* repeating cue, at most floor((toTime - startTime) / interval) + 1 turns
\* of its loop, none when toTime is before startTime: each turn raises the
\* cue's count by one and invokes each subscribed function once, so the
\* count goes up by no more than that and the function is invoked no more
\* often than that; the advance ends with the next timer scheduled.
C38_AdvanceTerminates ==
    /\ [](\A c \in DOMAIN cues : IsRepeating(c) => cues[c].interval >= 1)
    /\ [][(playing /\ tick) =>
            /\ timerId' \in timers'
            /\ \A c \in DOMAIN cues :
                IsRepeating(c) =>
                    LET bound == IF time' < cues[c].startTime THEN 0
                                 ELSE (time' - cues[c].startTime) \div cues[c].interval + 1
                    IN  /\ CountOf(repeatState', c) - CountOf(repeatState, c) <= bound
                        /\ Len(FiresOf(fires', c)) <= bound
                        /\ calls'[c][OnFn("f")] - calls[c][OnFn("f")] <= bound]_vars

\* C38 witness: after a backward seek, one advance has caught up every
\* tick of a cue with interval 2 from its start, two or more, which is as
\* many as the bound allows.
C38_Witness ==
    \E c \in DOMAIN cues :
        /\ IsRepeating(c) /\ cues[c].interval = 2 /\ Registered(c, "f") /\ Advanced
        /\ nBack = 1
        /\ Len(fires) >= 2
        /\ Len(fires) = (time - cues[c].startTime) \div cues[c].interval + 1

\* C39 (as claimed): virtualTime goes down only by a seek() to a smaller
\* value: no tick makes it smaller, and play(), pause(), on(), once(), the
\* handles and destroy() leave it as it is.
C39_TimeMonotone ==
    /\ [][time' < time => \E timeMs \in 0..MaxSeek : timeMs < time /\ seek(timeMs)]_vars
    /\ [][tick => time' >= time]_vars
    /\ [][(\/ play
           \/ pause
           \/ destroy
           \/ \E c \in DOMAIN cues, f \in CbIds : on(c, f) \/ once(c, f)
           \/ \E h \in handles : unsub(h)) => time' = time]_vars

====
